---- MODULE Spec2Model ----
(***************************************************************************)
(* A model of adapt-authoring-jsonschema: the schema registry of           *)
(* lib/jsonSchemaModule.js (registerSchema, deregisterSchema,              *)
(* extendSchema, getSchema/loadSchema, registerSchemas), its patch engine  *)
(* (applyPatch / JsonSchema.patch), the SchemaCache, the JsonSchema        *)
(* entity (load) and the getSchema of the earlier module unnamed/part_006. *)
(*                                                                         *)
(* JSON documents are functions from field names to values; a field that   *)
(* the document does not define is absent from the DOMAIN.  The fields     *)
(* $anchor, $merge and $patch are written anchor, merge and patch.         *)
(***************************************************************************)
EXTENDS Integers, Sequences, FiniteSets, TLC

VARIABLES
  schemaPaths,       \* this.schemaPaths: name -> file path (NoPath when absent)
  schemaExtensions,  \* this.schemaExtensions: name -> list of extension names
  schemaCache,       \* SchemaCache.cache: name -> <<>> or <<[data, timestamp]>>
  config,            \* SchemaCache.isEnabled / lifespan, as read from the config
  now,               \* Date.now()
  tasks,             \* registerSchema calls suspended in their file read
  batch,             \* the registerSchemas call in progress
  log,               \* what this.log has been given, by level
  call,              \* the last call that returned or threw, and what it saw
  px,                \* one call of the patch engine: inputs and result
  vx,                \* one call of validate or sanitise: inputs and result
  wrapper,           \* the module of lib/JsonSchemaModule.js and its library
  entities           \* the JsonSchema instances created so far

vars == <<schemaPaths, schemaExtensions, schemaCache, config, now, tasks, batch, log, call, px,
          vx, wrapper, entities>>

regVars == <<schemaPaths, schemaExtensions, schemaCache, config, now, tasks, batch, log, call>>

-----------------------------------------------------------------------------
(* JSON helpers *)

Has(o, f) == f \in DOMAIN o

SetField(o, f, v) == [k \in DOMAIN o \cup {f} |-> IF k = f THEN v ELSE o[k]]

Range(s) == {s[i] : i \in DOMAIN s}

RECURSIVE Uniq(_)
\* _.uniq: the first occurrence of each value, in order
Uniq(s) ==
  IF s = <<>> THEN <<>>
  ELSE LET r == Uniq(SubSeq(s, 1, Len(s) - 1))
       IN IF s[Len(s)] \in Range(r) THEN r ELSE Append(r, s[Len(s)])

RECURSIVE DefaultsDeepProps(_, _)
RECURSIVE DefaultsDeepDef(_, _)
\* _.defaultsDeep on two `properties` objects: the source fills only what the
\* target lacks, recursing into values both define
DefaultsDeepProps(tp, sp) ==
  [k \in DOMAIN tp \cup DOMAIN sp |->
     IF k \notin DOMAIN tp THEN sp[k]
     ELSE IF k \notin DOMAIN sp THEN tp[k]
     ELSE DefaultsDeepDef(tp[k], sp[k])]

\* ... and on two property definitions (attribute -> value)
DefaultsDeepDef(td, sd) ==
  [a \in DOMAIN td \cup DOMAIN sd |->
     IF a \notin DOMAIN td THEN sd[a]
     ELSE IF a \notin DOMAIN sd THEN td[a]
     ELSE IF a = "properties" THEN DefaultsDeepProps(td[a], sd[a])
     ELSE td[a]]

RECURSIVE MergeProps(_, _)
RECURSIVE MergeDef(_, _)
\* _.merge on two `properties` objects: the source wins on a conflict,
\* recursing into values both define
MergeProps(tp, sp) ==
  [k \in DOMAIN tp \cup DOMAIN sp |->
     IF k \notin DOMAIN tp THEN sp[k]
     ELSE IF k \notin DOMAIN sp THEN tp[k]
     ELSE MergeDef(tp[k], sp[k])]

MergeDef(td, sd) ==
  [a \in DOMAIN td \cup DOMAIN sd |->
     IF a \notin DOMAIN td THEN sd[a]
     ELSE IF a \notin DOMAIN sd THEN td[a]
     ELSE IF a = "properties" THEN MergeProps(td[a], sd[a])
     ELSE sd[a]]

-----------------------------------------------------------------------------
(* The patch engine *)

Annotations == <<"anchor", "title", "description">>

Compositions == <<"allOf", "anyOf", "oneOf">>

RECURSIVE CopyAnnotations(_, _, _)
\* ['$anchor', 'title', 'description'].forEach(p => { if(patchSchema[p]) sourceSchema[p] = patchSchema[p] })
CopyAnnotations(sourceSchema, patchSchema, i) ==
  IF i > Len(Annotations) THEN sourceSchema
  ELSE LET p == Annotations[i]
           s == IF Has(patchSchema, p) /\ patchSchema[p] # ""
                THEN SetField(sourceSchema, p, patchSchema[p]) ELSE sourceSchema
       IN CopyAnnotations(s, patchSchema, i + 1)

RECURSIVE ConcatCompositionsReplace(_, _, _)
\* the fragment's array put in the place of the target's
ConcatCompositionsReplace(sourceSchema, patchData, i) ==
  IF i > Len(Compositions) THEN sourceSchema
  ELSE LET p == Compositions[i]
           s == IF Has(patchData, p) /\ Len(patchData[p]) > 0
                THEN SetField(sourceSchema, p, patchData[p]) ELSE sourceSchema
       IN ConcatCompositionsReplace(s, patchData, i + 1)

RECURSIVE ConcatCompositions(_, _, _)
\* ['allOf','anyOf','oneOf'].forEach(p => { if(patchData[p]?.length) sourceSchema[p] = (sourceSchema[p] ?? []).concat(_.cloneDeep(patchData[p])) })
ConcatCompositions(sourceSchema, patchData, i) ==
  IF i > Len(Compositions) THEN sourceSchema
  ELSE LET p == Compositions[i]
           s == IF Has(patchData, p) /\ Len(patchData[p]) > 0
                THEN SetField(sourceSchema, p,
                       (IF Has(sourceSchema, p) THEN sourceSchema[p] ELSE <<>>) \o patchData[p])
                ELSE sourceSchema
       IN ConcatCompositions(s, patchData, i + 1)

\* mergeFunc(sourceSchema.properties, patchData.properties): lodash merges into its
\* first argument in place; given undefined it merges into a fresh object that
\* the caller drops
MergeProperties(sourceSchema, patchData, overwriteProperties) ==
  IF ~Has(patchData, "properties") THEN sourceSchema
  ELSE IF ~Has(sourceSchema, "properties") THEN sourceSchema
  ELSE [sourceSchema EXCEPT !.properties =
          IF overwriteProperties THEN MergeProps(@, patchData.properties)
          ELSE DefaultsDeepProps(@, patchData.properties)]

\* the union of the two lists without the _.uniq
UnionRequiredNoUniq(sourceSchema, patchData) ==
  IF ~Has(patchData, "required") THEN sourceSchema
  ELSE SetField(sourceSchema, "required",
         (IF Has(sourceSchema, "required") THEN sourceSchema.required ELSE <<>>)
           \o patchData.required)

\* if(patchData.required) sourceSchema.required = _.uniq([...(sourceSchema.required ?? []), ...patchData.required])
UnionRequired(sourceSchema, patchData) ==
  IF ~Has(patchData, "required") THEN sourceSchema
  ELSE SetField(sourceSchema, "required",
         Uniq((IF Has(sourceSchema, "required") THEN sourceSchema.required ELSE <<>>)
                \o patchData.required))

\* patchSchema?.$patch?.with || patchSchema?.$merge?.with || !opts.strict && patchSchema
\* (<<>> when the expression is falsy)
PatchData(patchSchema, strict) ==
  IF Has(patchSchema, "patch") /\ Has(patchSchema.patch, "with") THEN <<patchSchema.patch.with>>
  ELSE IF Has(patchSchema, "merge") /\ Has(patchSchema.merge, "with") THEN <<patchSchema.merge.with>>
  ELSE IF ~strict THEN <<patchSchema>>
  ELSE <<>>

Opt(options, k, default) == IF Has(options, k) THEN options[k] ELSE default

\* the body of applyPatch / patch once the fragment body is accepted
\* PatchBody taking no notice of extendAnnotations: the fragment's annotations
\* are always copied
PatchBodyAnnotating(sourceSchema, patchSchema, patchData, extendAnnotations, overwriteProperties) ==
  LET s1 == CopyAnnotations(sourceSchema, patchSchema, 1)
      s2 == MergeProperties(s1, patchData, overwriteProperties)
      s3 == ConcatCompositions(s2, patchData, 1)
  IN UnionRequired(s3, patchData)

PatchBody(sourceSchema, patchSchema, patchData, extendAnnotations, overwriteProperties) ==
  LET s1 == IF extendAnnotations THEN CopyAnnotations(sourceSchema, patchSchema, 1)
            ELSE sourceSchema
      s2 == MergeProperties(s1, patchData, overwriteProperties)
      s3 == ConcatCompositions(s2, patchData, 1)
  IN UnionRequired(s3, patchData)

\* JsonSchemaModule.applyPatch: [schema, warned]
applyPatch(sourceSchema, patchSchema, options) ==
  LET pd == PatchData(patchSchema, Opt(options, "strict", TRUE))
  IN IF pd = <<>> THEN [schema |-> sourceSchema, warned |-> TRUE, err |-> "none"]
     ELSE [schema |-> PatchBody(sourceSchema, patchSchema, pd[1],
                                Opt(options, "extendAnnotations", TRUE),
                                Opt(options, "overwriteProperties", FALSE)),
           warned |-> FALSE, err |-> "none"]

\* JsonSchema.patch: a fragment without a body is an INVALID_SCHEMA error
patch(baseSchema, patchSchema, options) ==
  LET pd == PatchData(patchSchema, Opt(options, "strict", TRUE))
  IN IF pd = <<>> THEN [schema |-> baseSchema, warned |-> FALSE, err |-> "INVALID_SCHEMA"]
     ELSE [schema |-> PatchBody(baseSchema, patchSchema, pd[1],
                                Opt(options, "extendAnnotations",
                                    ~(Has(patchSchema, "anchor") /\ patchSchema.anchor = "base")),
                                Opt(options, "overwriteProperties", TRUE)),
           warned |-> FALSE, err |-> "none"]

-----------------------------------------------------------------------------
(* Inputs of the patch engine *)

\* a string property with a default
Str(d) == [type |-> "string", default |-> d]

PatchTargets ==
  { [anchor |-> "t"],
    [anchor |-> "t", title |-> "T", properties |-> [p |-> Str("t")], required |-> <<"a">>],
    [anchor |-> "t", properties |-> [p |-> Str("t"),
                                      o |-> [type |-> "object", properties |-> [n |-> Str("t")]]],
     required |-> <<"a", "b">>, allOf |-> <<"s1">>] }

PatchFragments ==
  { [anchor |-> "f"],
    [anchor |-> "f", title |-> "F",
     patch |-> [source |-> "t",
                with |-> [properties |-> [p |-> Str("f"), x |-> Str("f")],
                          required |-> <<"a", "c">>]]],
    [anchor |-> "f",
     merge |-> [source |-> "t",
                with |-> [required |-> <<"b", "b", "c">>, allOf |-> <<"s2">>]]],
    [anchor |-> "base", properties |-> [id |-> Str("b")], required |-> <<"c">>],
    [anchor |-> "f",
     patch |-> [source |-> "t",
                with |-> [properties |-> [o |-> [type |-> "object", title |-> "O",
                                                 properties |-> [n |-> Str("f"), m |-> Str("f")]]],
                          anyOf |-> <<"s3">>]]],
    [anchor |-> "f", patch |-> [source |-> "t", with |-> [required |-> <<>>, allOf |-> <<>>]]] }

PatchOptions ==
  { [strict |-> TRUE],
    [strict |-> FALSE, extendAnnotations |-> FALSE],
    [extendAnnotations |-> FALSE, strict |-> TRUE],
    [overwriteProperties |-> TRUE, strict |-> TRUE],
    [overwriteProperties |-> FALSE, strict |-> FALSE] }

PatchImpls == {"applyPatch", "patch"}

\* how many fragments are applied to one target in a row
MaxPatches == 2

IdlePx == [impl |-> "none", n |-> 0, target |-> [anchor |-> ""], fragment |-> [anchor |-> ""],
           options |-> [strict |-> TRUE], out |-> <<>>]

PatchInputs ==
  [impl : PatchImpls, n : {1}, target : PatchTargets, fragment : PatchFragments,
   options : PatchOptions, out : {<<>>}]

\* one call of JsonSchemaModule.applyPatch
ApplyPatchCall ==
  /\ px.impl = "applyPatch" /\ px.out = <<>>
  /\ px' = [px EXCEPT !.out = <<applyPatch(px.target, px.fragment, px.options)>>]
  /\ UNCHANGED <<regVars, entities, vx, wrapper>>

\* one call of JsonSchema.patch
PatchCall ==
  /\ px.impl = "patch" /\ px.out = <<>>
  /\ px' = [px EXCEPT !.out = <<patch(px.target, px.fragment, px.options)>>]
  /\ UNCHANGED <<regVars, entities, vx, wrapper>>

\* the result becomes the target of the next fragment, as in a build
PatchAgain ==
  /\ px.out # <<>> /\ px.n < MaxPatches
  /\ \E f \in PatchFragments, o \in PatchOptions :
       px' = [px EXCEPT !.n = @ + 1, !.target = px.out[1].schema, !.fragment = f,
                        !.options = o, !.out = <<>>]
  /\ UNCHANGED <<regVars, entities, vx, wrapper>>

-----------------------------------------------------------------------------
(* Schema files on disk *)

NoPath == ""

\* what a missing value (undefined) is written as
Undefined == "undefined"

IsString(x) == x # Undefined

BASE_SCHEMA_NAME == "base"

\* JSON.parse((await fs.readFile(filePath)).toString()): <<>> when the read or
\* the parse throws, <<document>> otherwise
ReadJson(filePath) ==
  CASE filePath = "base.schema.json" ->
         <<[anchor |-> "base", type |-> "object",
            properties |-> [id |-> Str("base"), p |-> Str("base")], required |-> <<"id">>]>>
    [] filePath = "b.schema.json" ->
         <<[anchor |-> "B", title |-> "B", type |-> "object",
            properties |-> [p |-> Str("b")], required |-> <<"p">>]>>
    [] filePath = "b2.schema.json" ->
         <<[anchor |-> "B", title |-> "B2", type |-> "object", required |-> <<"p">>]>>
    [] filePath = "e1.schema.json" ->
         <<[anchor |-> "E1", title |-> "E1",
            patch |-> [source |-> [ref |-> "B"],
                       with |-> [properties |-> [x |-> Str("e1")], required |-> <<"x">>,
                                 allOf |-> <<"e1">>]]]>>
    [] filePath = "e2.schema.json" ->
         <<[anchor |-> "E2",
            patch |-> [source |-> [ref |-> "B"],
                       with |-> [properties |-> [x |-> Str("e2"), y |-> Str("e2")],
                                 allOf |-> <<"e2">>]]]>>
    [] filePath = "n.schema.json" ->
         <<[anchor |-> "N", type |-> "object", required |-> <<"k">>]>>
    [] filePath = "m.schema.json" ->
         <<[anchor |-> "M", title |-> "M",
            merge |-> [source |-> [ref |-> "B"],
                       with |-> [properties |-> [z |-> Str("m"), p |-> Str("m")]]]]>>
    [] filePath = "s.schema.json" ->
         <<[anchor |-> "S", title |-> "S",
            merge |-> [source |-> [ref |-> "S"],
                       with |-> [properties |-> [s |-> Str("s")]]]]>>
    [] filePath = "noanchor.schema.json" ->
         <<[type |-> "object", properties |-> [w |-> Str("w")]]>>
    [] filePath = "invalid.schema.json" ->
         <<[anchor |-> "I", type |-> "objekt", required |-> <<"a", "a">>]>>
    [] filePath = "x1.schema.json" ->
         <<[anchor |-> "X1", title |-> "X1",
            patch |-> [source |-> [ref |-> "B"],
                       with |-> [properties |-> [x |-> Str("x1")], required |-> <<"x">>]]]>>
    [] filePath = "e3.schema.json" ->
         <<[anchor |-> "E3", patch |-> [with |-> [properties |-> [v |-> Str("e3")]]]]>>
    [] OTHER -> <<>>   \* bad.schema.json: not JSON; any other path: no such file

Names == {"base", "B", "E1", "E2", "E3", "N", "M", "I"}

JsonTypes == {"object", "array", "string", "number", "integer", "boolean", "null"}

\* this.validator.validateSchema(schema) with allErrors: the messages of every
\* violation of the meta-schema, here its rules for `type` and `required`
MetaSchemaErrors(schema) ==
  (IF Has(schema, "type") /\ schema.type \notin JsonTypes
   THEN <<"/type must be equal to one of the allowed values">> ELSE <<>>)
  \o (IF Has(schema, "required") /\ Cardinality(Range(schema.required)) # Len(schema.required)
      THEN <<"/required must NOT have duplicate items">> ELSE <<>>)

-----------------------------------------------------------------------------
(* The registry: registerSchema, deregisterSchema, extendSchema *)

\* how long a list of extensions may grow
MaxExt == 2

\* how many registerSchema calls may be suspended at once
MaxTasks == 1

NoCall == [op |-> "none", name |-> "", file |-> "", replace |-> FALSE, err |-> "none",
           id |-> "", errors |-> <<>>, res |-> <<>>, options |-> <<>>]

\* extendSchema(baseSchemaName, extSchemaName): [err, exts]
extendSchema(exts, baseSchemaName, extSchemaName) ==
  IF ~IsString(baseSchemaName) \/ ~IsString(extSchemaName)
  THEN [err |-> "INVALID_PARAMS", exts |-> exts]
  ELSE [err |-> "none",
        exts |-> [exts EXCEPT ![baseSchemaName] = Append(@, extSchemaName)]]

\* deregisterSchema that empties the table when the name is not in it
deregisterSchemaTooMuch(paths, name) ==
  [n \in Names |-> IF n = name \/ name \notin DOMAIN paths \/ paths[name] = NoPath
                   THEN NoPath ELSE paths[n]]

\* deregisterSchema(name): if(this.schemaPaths[name]) delete this.schemaPaths[name]
deregisterSchema(paths, name) ==
  IF name \in DOMAIN paths /\ paths[name] # NoPath THEN [paths EXCEPT ![name] = NoPath]
  ELSE paths

\* the replace branch with the new path lost
replaceSchemaLost(paths, name, filePath) == deregisterSchema(paths, name)

\* if(options.replace) this.deregisterSchema(name); ...; this.schemaPaths[name] = filePath
replaceSchema(paths, name, filePath) ==
  [deregisterSchema(paths, name) EXCEPT ![name] = filePath]

\* json.$patch?.source?.$ref
PatchRef(json) ==
  IF Has(json.patch, "source") /\ Has(json.patch.source, "ref") THEN json.patch.source.ref
  ELSE Undefined

\* registerSchema after its file read has settled: [err, errors, name, paths, exts]
registerSchema(paths, exts, filePath, replace) ==
  LET read == ReadJson(filePath)
      json == read[1]
      name == json.anchor
      fail(e, msgs, n) == [err |-> e, errors |-> msgs, name |-> n, paths |-> paths, exts |-> exts]
  IN IF read = <<>> THEN fail("SCHEMA_LOAD_FAILED", <<>>, "")
     ELSE IF ~Has(json, "anchor") \/ name = ""
       THEN fail("INVALID_SCHEMA", <<"Schema is missing $anchor">>, "")
     ELSE IF MetaSchemaErrors(json) # <<>>
       THEN fail("INVALID_SCHEMA", MetaSchemaErrors(json), name)
     ELSE IF paths[name] # NoPath /\ ~replace
       \* SCHEMA_EXISTS.setData({ name, filepath }): filepath is not defined
       THEN fail("ReferenceError", <<>>, name)
     ELSE LET paths1 == IF paths[name] # NoPath THEN replaceSchema(paths, name, filePath)
                        ELSE [paths EXCEPT ![name] = filePath]
              ext == IF Has(json, "patch") THEN extendSchema(exts, PatchRef(json), name)
                     ELSE [err |-> "none", exts |-> exts]
          IN [err |-> ext.err, errors |-> <<>>, name |-> name, paths |-> paths1,
              exts |-> ext.exts]

-----------------------------------------------------------------------------
(* SchemaCache *)

NoCache == [n \in Names |-> <<>>]

\* SchemaCache.prune(): delete every entry with Date.now() > timestamp + lifespan
prune(cache, t, lifespan) ==
  [n \in Names |-> IF cache[n] # <<>> /\ t > cache[n][1].timestamp + lifespan
                   THEN <<>> ELSE cache[n]]

\* SchemaCache.get(schemaName) after its prune: <<data>> or <<>> (undefined)
cacheGet(cache, schemaName, isEnabled) ==
  IF isEnabled /\ cache[schemaName] # <<>> THEN <<cache[schemaName][1].data>> ELSE <<>>

\* the $anchor the schema of a compiled function had when it was handed to
\* SchemaCache.set: `key` records it when the schema object was changed after
SetKey(compiledSchema) ==
  IF Has(compiledSchema, "key") THEN compiledSchema.key
  ELSE IF Has(compiledSchema.schema, "anchor") THEN compiledSchema.schema.anchor
  ELSE Undefined

\* SchemaCache.set(compiledSchema), keyed by compiledSchema.schema.$anchor; the
\* entry holds the function, and with it the schema object as it is now
cacheSet(cache, compiledSchema, t) ==
  IF SetKey(compiledSchema) \in Names
  THEN [cache EXCEPT ![SetKey(compiledSchema)] =
          <<[data |-> [schema |-> compiledSchema.schema], timestamp |-> t]>>]
  ELSE cache

RECURSIVE cacheSetAll(_, _, _)
cacheSetAll(cache, compiledSchemas, t) ==
  IF compiledSchemas = <<>> THEN cache
  ELSE cacheSetAll(cacheSet(cache, Head(compiledSchemas), t), Tail(compiledSchemas), t)

-----------------------------------------------------------------------------
(* getSchema / loadSchema *)

\* how deep getSchema and loadSchema may call each other before the call is
\* taken never to settle
MaxDepth == 5

\* this.validator.compileAsync(JSON.parse(JSON.stringify(schema))): the validation
\* function, which carries the schema it was compiled from
compileAsync(schema) == [schema |-> schema]

NoSchema == [anchor |-> ""]

\* a getSchema call that throws err; id is the schema name its data carries
Thrown(err, id, sets, gets) ==
  [err |-> err, id |-> id, compiled |-> compileAsync(NoSchema), sets |-> sets, gets |-> gets]

\* typeof extensionFilter === 'function' ? extensionFilter(extSchema.$anchor) : applyExtensions !== false
AcceptsExtension(options, extAnchor) ==
  IF Has(options, "extensionFilter") THEN extAnchor \in options.extensionFilter
  ELSE Opt(options, "applyExtensions", TRUE)

\* (options.useCache !== false && this.schemaCache.get(schemaName)?.data): the
\* cache hands out the compiled function, which has no `data` of its own
cachedSchema(cache, schemaName, options, isEnabled) ==
  IF ~Opt(options, "useCache", TRUE) THEN <<>>
  ELSE LET hit == cacheGet(cache, schemaName, isEnabled)
       IN IF hit = <<>> THEN <<>>
          ELSE IF Has(hit[1], "data") THEN <<hit[1].data>> ELSE <<>>

\* applyPatch(await this.getSchema(mergeRef, ...), schema) changes its first
\* argument in place, and that is the `schema` of the function the parent's
\* loadSchema has just handed to SchemaCache.set, the k-th of sets: the cache
\* entry of the parent holds the patched schema from then on
patchedInPlace(sets, k, schema) ==
  IF k = 0 THEN sets
  ELSE [sets EXCEPT ![k] = [schema |-> schema, key |-> SetKey(sets[k])]]

RECURSIVE getSchemaR(_, _, _, _, _)
RECURSIVE loadSchemaR(_, _, _, _, _)
RECURSIVE applyExtensionsR(_, _, _, _, _, _)

\* getSchema(schemaName, options): [err, id, compiled, sets, gets]; sets are the
\* compiled schemas handed to schemaCache.set on the way, in order, and gets
\* tells whether schemaCache.get was called.  st = [paths, exts, cache,
\* isEnabled]; ord gives, per schema, the order in which the getSchema calls of
\* its extensions settle
getSchemaR(st, ord, schemaName, options, fuel) ==
  IF fuel = 0 THEN Thrown("never settles", schemaName, <<>>, FALSE)
  ELSE IF ~IsString(schemaName) THEN Thrown("INVALID_PARAMS", schemaName, <<>>, FALSE)
  ELSE IF schemaName \notin Names \/ st.paths[schemaName] = NoPath
    THEN Thrown("NOT_FOUND", schemaName, <<>>, FALSE)
  ELSE LET c == cachedSchema(st.cache, schemaName, options, st.isEnabled)
       IN IF c # <<>>
          THEN [err |-> "none", id |-> "", compiled |-> c[1], sets |-> <<>>, gets |-> TRUE]
          ELSE [loadSchemaR(st, ord, schemaName, options, fuel)
                  EXCEPT !.gets = @ \/ Opt(options, "useCache", TRUE)]

\* schema?.$merge?.source?.$ref, "" when there is none
MergeRef(schema) ==
  IF Has(schema, "merge") /\ Has(schema.merge, "source") /\ Has(schema.merge.source, "ref")
  THEN schema.merge.source.ref ELSE ""

\* the schema loadSchema patches its document with or into: the one named by
\* $merge, else the base schema, which itself has none
NeedsParent(schema) ==
  MergeRef(schema) # "" \/ ~(Has(schema, "anchor") /\ schema.anchor = BASE_SCHEMA_NAME)

\* the getSchema call of loadSchema for that schema
loadParent(st, ord, schema, options, fuel) ==
  IF MergeRef(schema) # ""
  THEN getSchemaR(st, ord, MergeRef(schema), SetField(options, "compiled", FALSE), fuel - 1)
  ELSE IF NeedsParent(schema)
  THEN getSchemaR(st, ord, BASE_SCHEMA_NAME, [compiled |-> FALSE], fuel - 1)
  ELSE [err |-> "none", id |-> "", compiled |-> compileAsync(NoSchema), sets |-> <<>>,
        gets |-> FALSE]

\* the end of loadSchema, x being what the extensions left and k the place in
\* x.sets of the function whose schema was patched in place (0: none)
loadSchemaEnd(x, k) ==
  LET sets1 == patchedInPlace(x.sets, k, x.schema)
  IN IF x.err # "none" THEN Thrown(x.err, x.id, sets1, x.gets)
     ELSE [err |-> "none", id |-> "", compiled |-> compileAsync(x.schema),
           sets |-> Append(sets1, compileAsync(x.schema)), gets |-> x.gets]

\* loadSchema from the moment the getSchema of the parent has settled
loadSchemaFrom(st, ord, schemaName, options, fuel, schema, parent) ==
  LET merged == IF MergeRef(schema) # ""
                THEN applyPatch(parent.compiled.schema, schema, <<>>).schema
                ELSE IF NeedsParent(schema)
                THEN applyPatch(schema, parent.compiled.schema,
                                [strict |-> FALSE, extendAnnotations |-> FALSE]).schema
                ELSE schema
  IN IF NeedsParent(schema) /\ parent.err # "none"
     THEN Thrown(parent.err, parent.id, parent.sets, parent.gets)
     ELSE CHOOSE r \in
            {loadSchemaEnd(x, IF MergeRef(schema) # "" THEN Len(parent.sets) ELSE 0) :
               x \in {applyExtensionsR(st, ord, ord[schemaName], options, fuel,
                                       [err |-> "none", id |-> "", schema |-> merged,
                                        sets |-> parent.sets, gets |-> parent.gets])}} : TRUE

\* loadSchema(schemaName, options)
loadSchemaR(st, ord, schemaName, options, fuel) ==
  LET read == ReadJson(st.paths[schemaName])
  IN IF read = <<>> THEN Thrown("SCHEMA_LOAD_FAILED", schemaName, <<>>, FALSE)
     ELSE CHOOSE r \in
            {loadSchemaFrom(st, ord, schemaName, options, fuel, read[1], parent) :
               parent \in {loadParent(st, ord, read[1], options, fuel)}} : TRUE

\* one callback of the map over the extensions, e being what its getSchema
\* settled with
applyExtension(acc, e, options) ==
  IF e.err # "none"
  THEN [err |-> IF acc.err = "none" THEN e.err ELSE acc.err,
        id |-> IF acc.err = "none" THEN e.id ELSE acc.id,
        schema |-> acc.schema, sets |-> acc.sets \o e.sets,
        gets |-> acc.gets \/ e.gets]
  ELSE [err |-> acc.err, id |-> acc.id,
        schema |-> IF AcceptsExtension(options, e.compiled.schema.anchor)
                   THEN applyPatch(acc.schema, e.compiled.schema,
                                   [extendAnnotations |-> FALSE]).schema
                   ELSE acc.schema,
        sets |-> acc.sets \o e.sets, gets |-> acc.gets \/ e.gets]

\* Promise.all(this.schemaExtensions[schemaName].map(async s => ...)): every
\* extension is fetched; the first rejection is the one loadSchema throws
applyExtensionsR(st, ord, list, options, fuel, acc) ==
  IF list = <<>> THEN acc
  ELSE CHOOSE r \in
         {applyExtensionsR(st, ord, Tail(list), options, fuel, next) :
            next \in {applyExtension(acc, e, options) :
                        e \in {getSchemaR(st, ord, Head(list),
                                          [useCache |-> Opt(options, "useCache", TRUE)],
                                          fuel - 1)}}} : TRUE

-----------------------------------------------------------------------------
(* The JsonSchema entity *)

\* how many JsonSchema instances are created
MaxEntities == 2

NoEntity == [state |-> "none", filePath |-> NoPath, raw |-> <<>>, name |-> Undefined,
             err |-> "none", errors |-> <<>>,
             built |-> <<>>, isBuilding |-> FALSE, lastBuildTime |-> <<>>,
             enableCache |-> FALSE, extensions |-> <<>>, compiled |-> <<>>]

NoEntities == [i \in 1 .. MaxEntities |-> NoEntity]

\* this.validator.validateSchema(schema): Ajv answers with a boolean
validatorValidateSchema(schema) == MetaSchemaErrors(schema) = <<>>

\* (valid)?.errors: neither true nor false has a property `errors`
ErrorsProperty(valid) == Undefined

\* JsonSchema.load(): [err, errors, raw, name]
load(filePath) ==
  LET read == ReadJson(filePath)
      raw == read[1]
      name == IF Has(raw, "anchor") THEN raw.anchor ELSE Undefined
  IN IF read = <<>>
     THEN [err |-> "SCHEMA_LOAD_FAILED", errors |-> <<>>, raw |-> <<>>, name |-> Undefined]
     ELSE IF ErrorsProperty(validatorValidateSchema(raw)) # Undefined
               /\ MetaSchemaErrors(raw) # <<>>
     THEN [err |-> "INVALID_SCHEMA", errors |-> MetaSchemaErrors(raw), raw |-> read,
           name |-> name]
     ELSE [err |-> "none", errors |-> <<>>, raw |-> read, name |-> name]

-----------------------------------------------------------------------------
(* The module before the SchemaCache class: unnamed/part_006 *)

\* getCached(key): <<schema>> while the entry is valid, <<>> otherwise; with
\* options {} the key `${schemaName}-{}` stands for the name
getCached(cache, isEnabled, key, t, lifespan) ==
  IF isEnabled /\ cache[key] # <<>> /\ t <= cache[key][1].timestamp + lifespan
  THEN <<cache[key][1].schema>> ELSE <<>>

\* setCached(key, schema)
setCached(cache, isEnabled, key, schema, t) ==
  IF isEnabled THEN [cache EXCEPT ![key] = <<[schema |-> schema, timestamp |-> t]>>]
  ELSE cache

\* loadSchema(schemaName): [err, id, schema]
legacyLoadSchema(paths, schemaName) ==
  IF ~IsString(schemaName) \/ schemaName = ""
  THEN [err |-> "MISSING_SCHEMA_NAME", id |-> "", schema |-> NoSchema]
  ELSE IF schemaName \notin Names \/ paths[schemaName] = NoPath
  THEN [err |-> "NOT_FOUND", id |-> schemaName, schema |-> NoSchema]
  ELSE IF ReadJson(paths[schemaName]) = <<>>
  THEN [err |-> "SCHEMA_LOAD_FAILED", id |-> schemaName, schema |-> NoSchema]
  ELSE [err |-> "none", id |-> "", schema |-> ReadJson(paths[schemaName])[1]]

\* loadSchemaExtensions(schemaName): the warnings it logs for the extensions
\* that do not load
legacyExtensionWarnings(paths, exts, schemaName) ==
  {[level |-> "warn", file |-> e, err |-> legacyLoadSchema(paths, e).err] :
     e \in {x \in Range(exts[schemaName]) : legacyLoadSchema(paths, x).err # "none"}}

\* getSchema(schemaName, {}): [err, id, res, cache, warnings].  With options {}
\* applyExtensions is undefined and no extension is applied; the base schema is
\* patched with the schema, not the schema with the base, so that what is
\* returned and cached is the document as loaded
legacyGetSchema(paths, exts, cache, isEnabled, lifespan, schemaName, t) ==
  LET cachedData == getCached(cache, isEnabled, schemaName, t, lifespan)
      l == legacyLoadSchema(paths, schemaName)
      mergeRef == Has(l.schema, "merge") /\ Has(l.schema.merge, "source")
                    /\ Has(l.schema.merge.source, "ref")
      b == legacyLoadSchema(paths, BASE_SCHEMA_NAME)
      thrown(e, id) == [err |-> e, id |-> id, res |-> <<>>, cache |-> cache, warnings |-> {}]
  IN IF cachedData # <<>>
     THEN [err |-> "none", id |-> "", res |-> cachedData, cache |-> cache, warnings |-> {}]
     ELSE IF l.err # "none" THEN thrown(l.err, l.id)
     ELSE IF mergeRef THEN thrown("never settles", schemaName)
     ELSE IF b.err # "none" THEN thrown(b.err, b.id)
     ELSE [err |-> "none", id |-> "", res |-> <<l.schema>>,
           cache |-> setCached(cache, isEnabled, schemaName, l.schema, t),
           warnings |-> legacyExtensionWarnings(paths, exts, schemaName)]

\* extendSchema: a name that is not a string is logged as an error, not thrown
legacyExtendSchema(exts, baseSchemaName, extSchemaName) ==
  IF ~IsString(baseSchemaName) \/ ~IsString(extSchemaName)
  THEN [logged |-> "error", exts |-> exts]
  ELSE [logged |-> "none", exts |-> [exts EXCEPT ![baseSchemaName] = Append(@, extSchemaName)]]

\* registerSchema after its file read has settled: [logged, name, paths, exts];
\* every failure is logged and the call returns
legacyRegisterSchema(paths, exts, filePath, replace) ==
  LET read == ReadJson(filePath)
      json == read[1]
      name == json.anchor
      fail(level) == [logged |-> level, name |-> "", paths |-> paths, exts |-> exts]
  IN IF read = <<>> THEN fail("error")
     ELSE IF ~Has(json, "anchor") \/ name = "" THEN fail("warn")
     ELSE IF paths[name] # NoPath /\ ~replace THEN fail("error")
     ELSE LET ext == IF Has(json, "patch") THEN legacyExtendSchema(exts, PatchRef(json), name)
                     ELSE [logged |-> "none", exts |-> exts]
          IN [logged |-> ext.logged, name |-> name,
              paths |-> [deregisterSchema(paths, name) EXCEPT ![name] = filePath],
              exts |-> ext.exts]

-----------------------------------------------------------------------------
(* validate: data are objects, functions from keys to values [type, value];
   the value of an object-typed key is again such a function.  A key whose
   value is undefined is left out.  An error of the validator is a record
   [keyword, instancePath, message], paths and messages being sequences of
   words; the joined error text is the sequence of the rendered errors. *)

Sv(s) == [type |-> "string", value |-> s]
Nv(n) == [type |-> "number", value |-> n]
Ov(o) == [type |-> "object", value |-> o]

\* the object with the keys of f that have a value
MkObj(f) == [k \in {k \in DOMAIN f : f[k] # <<>>} |-> f[k][1]]

RECURSIVE getObjectDefaultsProps(_)
\* getObjectDefaults: _.mapValues(props, s => s.properties ? this.getObjectDefaults(s) : s.default)
getObjectDefaultsProps(props) ==
  [k \in {k \in DOMAIN props : Has(props[k], "properties") \/ Has(props[k], "default")} |->
     IF Has(props[k], "properties") THEN Ov(getObjectDefaultsProps(props[k].properties))
     ELSE Sv(props[k].default)]

getObjectDefaults(schema) ==
  IF Has(schema, "properties") THEN getObjectDefaultsProps(schema.properties) ELSE <<>>

RECURSIVE JsonSchemaGetObjectDefaultsProps(_)
\* JsonSchema.getObjectDefaults: s.type === 'object' && s.properties ? ... : s.default
JsonSchemaGetObjectDefaultsProps(props) ==
  [k \in {k \in DOMAIN props :
            \/ Has(props[k], "type") /\ props[k].type = "object" /\ Has(props[k], "properties")
            \/ Has(props[k], "default")} |->
     IF Has(props[k], "type") /\ props[k].type = "object" /\ Has(props[k], "properties")
     THEN Ov(JsonSchemaGetObjectDefaultsProps(props[k].properties))
     ELSE Sv(props[k].default)]

JsonSchemaGetObjectDefaults(schema) ==
  IF Has(schema, "properties") THEN JsonSchemaGetObjectDefaultsProps(schema.properties)
  ELSE <<>>

\* _.defaults(data, defaults): the keys data lacks are filled, one level deep
DataDefaults(data, defaults) ==
  [k \in DOMAIN data \cup DOMAIN defaults |-> IF k \in DOMAIN data THEN data[k] ELSE defaults[k]]

RECURSIVE DataDefaultsDeep(_, _)
\* _.defaultsDeep(data, defaults): as _.defaults, recursing into objects
DataDefaultsDeep(data, defaults) ==
  [k \in DOMAIN data \cup DOMAIN defaults |->
     IF k \notin DOMAIN data THEN defaults[k]
     ELSE IF k \notin DOMAIN defaults THEN data[k]
     ELSE IF data[k].type = "object" /\ defaults[k].type = "object"
     THEN Ov(DataDefaultsDeep(data[k].value, defaults[k].value))
     ELSE data[k]]

\* the order in which the validator visits the keys of an object
KeyOrder == <<"title", "body", "name", "meta", "secret", "ro", "a", "b", "hidden">>

RECURSIVE ajvErrors(_, _, _)
RECURSIVE ajvPropertyErrors(_, _, _, _)
RECURSIVE ajvRequiredErrors(_, _, _, _)
\* the compiled function with allErrors: every missing required key, then
\* the errors of every key present, in the order of KeyOrder
ajvRequiredErrors(schema, data, path, i) ==
  IF ~Has(schema, "required") \/ i > Len(schema.required) THEN <<>>
  ELSE (IF schema.required[i] \notin DOMAIN data
        THEN <<[keyword |-> "required", instancePath |-> path,
                message |-> <<"must", "have", "required", "property", schema.required[i]>>]>>
        ELSE <<>>) \o ajvRequiredErrors(schema, data, path, i + 1)

ajvPropertyErrors(schema, data, path, i) ==
  IF i > Len(KeyOrder) THEN <<>>
  ELSE LET k == KeyOrder[i]
           here == IF ~Has(schema, "properties") \/ k \notin DOMAIN schema.properties
                      \/ k \notin DOMAIN data \/ ~Has(schema.properties[k], "type")
                   THEN <<>>
                   ELSE IF data[k].type # schema.properties[k].type
                   THEN <<[keyword |-> "type", instancePath |-> Append(path, k),
                           message |-> <<"must", "be", schema.properties[k].type>>]>>
                   ELSE IF data[k].type = "object"
                   THEN ajvErrors(schema.properties[k], data[k].value, Append(path, k))
                   ELSE <<>>
       IN here \o ajvPropertyErrors(schema, data, path, i + 1)

ajvErrors(schema, data, path) ==
  ajvRequiredErrors(schema, data, path, 1) \o ajvPropertyErrors(schema, data, path, 1)

\* e.message.includes('required')
MessageIncludesRequired(e) == \E i \in 1 .. Len(e.message) : e.message[i] = "required"

RECURSIVE SelectErrors(_, _)
\* errors.filter(keep), keep being a set of errors
SelectErrors(errors, keep) ==
  IF errors = <<>> THEN <<>>
  ELSE (IF Head(errors) \in keep THEN <<Head(errors)>> ELSE <<>>)
         \o SelectErrors(Tail(errors), keep)

RECURSIVE JoinErrors(_)
\* .map(e => e.instancePath ? `${e.instancePath} ${e.message}` : e.message)
\* .reduce((s, e) => s += `${e}, `, '')
JoinErrors(errors) ==
  IF errors = <<>> THEN <<>>
  ELSE Head(errors).instancePath \o Head(errors).message \o <<",">>
         \o JoinErrors(Tail(errors))

\* .filter(e => !opts.ignoreRequired || e.message.includes('required'))
validateFilter(errors, ignoreRequired) ==
  {e \in Range(errors) : ~ignoreRequired \/ MessageIncludesRequired(e)}

\* .filter(e => e.keyword === 'required' ? !opts.ignoreRequired : true)
JsonSchemaValidateFilter(errors, ignoreRequired) ==
  {e \in Range(errors) : IF e.keyword = "required" THEN ~ignoreRequired ELSE TRUE}

\* JsonSchemaModule.validate(validateFunc, dataToValidate, options):
\* [err, schemaName, errors, data, found]
validate(schema, dataToValidate, options) ==
  LET data == DataDefaultsDeep(dataToValidate,
                               IF Opt(options, "useDefaults", TRUE)
                               THEN getObjectDefaults(schema) ELSE <<>>)
      found == ajvErrors(schema, data, <<>>)
      errors == JoinErrors(SelectErrors(found,
                  validateFilter(found, Opt(options, "ignoreRequired", FALSE))))
  IN IF found # <<>> /\ Len(errors) > 0
     THEN [err |-> "VALIDATION_FAILED", schemaName |-> schema.anchor, errors |-> errors,
           data |-> data, found |-> found]
     ELSE [err |-> "none", schemaName |-> "", errors |-> <<>>, data |-> data, found |-> found]

\* JsonSchema.validate(dataToValidate, options) of an entity with a compiled
\* function
JsonSchemaValidate(schema, dataToValidate, options) ==
  LET data == DataDefaults(dataToValidate,
                           IF Opt(options, "useDefaults", TRUE)
                           THEN JsonSchemaGetObjectDefaults(schema) ELSE <<>>)
      found == ajvErrors(schema, data, <<>>)
      errors == JoinErrors(SelectErrors(found,
                  JsonSchemaValidateFilter(found, Opt(options, "ignoreRequired", FALSE))))
  IN IF found # <<>> /\ Len(errors) > 0
     THEN [err |-> "VALIDATION_FAILED", schemaName |-> schema.anchor, errors |-> errors,
           data |-> data, found |-> found]
     ELSE [err |-> "none", schemaName |-> "", errors |-> <<>>, data |-> data, found |-> found]

\* the schema the calls validate against: defaults at two depths, a required
\* property without a default, protected properties at two depths
ValidateSchema ==
  [anchor |-> "V", type |-> "object",
   properties |->
     [title |-> Str("d"), body |-> Str(""), name |-> [type |-> "string"],
      meta |-> [type |-> "object",
                properties |-> [a |-> Str("a0"), b |-> Str("b0"),
                                hidden |-> [type |-> "string", isInternal |-> TRUE]]],
      secret |-> [type |-> "string", isInternal |-> TRUE],
      ro |-> [type |-> "string", isReadOnly |-> TRUE]],
   required |-> <<"title", "name">>]

ValidateData ==
  {MkObj([title |-> t, body |-> b, name |-> n, meta |-> m]) :
     t \in {<<>>, <<Sv("x")>>, <<Nv(7)>>}, b \in {<<>>, <<Sv("y")>>},
     n \in {<<>>, <<Sv("n")>>}, m \in {<<>>, <<Ov(<<>>)>>, <<Ov([a |-> Sv("x")])>>}}

ValidateOptions ==
  {MkObj([useDefaults |-> u, ignoreRequired |-> i]) :
     u \in {<<>>, <<TRUE>>, <<FALSE>>}, i \in {<<>>, <<TRUE>>, <<FALSE>>}}

IdleVx == [op |-> "none", impl |-> "none", data |-> <<>>, options |-> <<>>, out |-> <<>>]

\* one call of JsonSchemaModule.validate
ValidateCall(data, options) ==
  /\ vx = IdleVx
  /\ vx' = [op |-> "validate", impl |-> "JsonSchemaModule", data |-> data, options |-> options,
            out |-> <<validate(ValidateSchema, data, options)>>]
  /\ UNCHANGED <<regVars, px, entities, wrapper>>

\* one call of JsonSchema.validate
JsonSchemaValidateCall(data, options) ==
  /\ vx = IdleVx
  /\ vx' = [op |-> "validate", impl |-> "JsonSchema", data |-> data, options |-> options,
            out |-> <<JsonSchemaValidate(ValidateSchema, data, options)>>]
  /\ UNCHANGED <<regVars, px, entities, wrapper>>

-----------------------------------------------------------------------------
(* sanitise: [err, attribute, memo], memo being the object the call resolves
   with, or had filled when it threw *)

\* the HTML filter: markup that is not whitelisted is escaped
xss(value) == IF value = Sv("<s>") THEN Sv("&lt;s&gt;") ELSE value

\* _.defaults(options, { isInternal: false, isReadOnly: false, sanitiseHtml: true, strict: true })
SanitiseOpts(options) ==
  [isInternal |-> Opt(options, "isInternal", FALSE),
   isReadOnly |-> Opt(options, "isReadOnly", FALSE),
   sanitiseHtml |-> Opt(options, "sanitiseHtml", TRUE),
   strict |-> Opt(options, "strict", TRUE)]

\* config[flag] is set
Flagged(conf, flag) == Has(conf, flag) /\ conf[flag]

\* (opts.isInternal && config.isInternal) || (opts.isReadOnly && config.isReadOnly)
omitProp(opts, conf) ==
  \/ opts.isInternal /\ Flagged(conf, "isInternal")
  \/ opts.isReadOnly /\ Flagged(conf, "isReadOnly")

\* config.type === 'object' && config.properties
IsNested(conf) == Has(conf, "type") /\ conf.type = "object" /\ Has(conf, "properties")

\* config.type === 'string' && opts.sanitiseHtml ? xss(value) : value
Cleaned(opts, conf, value) ==
  IF Has(conf, "type") /\ conf.type = "string" /\ opts.sanitiseHtml THEN xss(value)
  ELSE value

Protected(prop, memo) == [err |-> "MODIFY_PROTECTED_ATTR", attribute |-> prop, memo |-> memo]
Sanitised(memo) == [err |-> "none", attribute |-> "", memo |-> memo]

RECURSIVE sanitiseFrom(_, _, _, _, _)
\* JsonSchemaModule.sanitise from the i-th property on. The nested call is
\* an async function whose promise the forEach callback returns: what it
\* throws rejects that promise, which nobody awaits
sanitiseFrom(props, data, opts, i, memo) ==
  IF i > Len(KeyOrder) THEN Sanitised(memo)
  ELSE LET prop == KeyOrder[i]
           conf == props[prop]
       IN IF prop \notin DOMAIN props \/ prop \notin DOMAIN data
          THEN sanitiseFrom(props, data, opts, i + 1, memo)
          ELSE IF omitProp(opts, conf)
          THEN IF opts.strict THEN Protected(prop, memo)
               ELSE sanitiseFrom(props, data, opts, i + 1, memo)
          ELSE IF IsNested(conf)
          THEN sanitiseFrom(props, data, opts, i + 1,
                 SetField(memo, prop,
                          Ov(sanitiseFrom(conf.properties, data[prop].value, opts, 1,
                                          <<>>).memo)))
          ELSE sanitiseFrom(props, data, opts, i + 1,
                            SetField(memo, prop, Cleaned(opts, conf, data[prop])))

\* JsonSchemaModule.sanitise(schema, dataToSanitise, options)
sanitise(schema, dataToSanitise, options) ==
  sanitiseFrom(schema.properties, dataToSanitise, SanitiseOpts(options), 1, <<>>)

RECURSIVE JsonSchemaSanitiseFrom(_, _, _, _, _)
\* JsonSchema.sanitise of the latest class from the i-th property on
JsonSchemaSanitiseFrom(props, data, opts, i, sanitised) ==
  IF i > Len(KeyOrder) THEN Sanitised(sanitised)
  ELSE LET prop == KeyOrder[i]
           schemaData == props[prop]
           ignore == omitProp(opts, schemaData)
           inner == JsonSchemaSanitiseFrom(schemaData.properties, data[prop].value, opts, 1,
                                           <<>>)
       IN IF prop \notin DOMAIN props \/ prop \notin DOMAIN data \/ (ignore /\ ~opts.strict)
          THEN JsonSchemaSanitiseFrom(props, data, opts, i + 1, sanitised)
          ELSE IF ignore /\ opts.strict THEN Protected(prop, sanitised)
          ELSE IF IsNested(schemaData)
          THEN IF inner.err # "none" THEN [inner EXCEPT !.memo = sanitised]
               ELSE JsonSchemaSanitiseFrom(props, data, opts, i + 1,
                                           SetField(sanitised, prop, Ov(inner.memo)))
          ELSE JsonSchemaSanitiseFrom(props, data, opts, i + 1,
                 SetField(sanitised, prop, Cleaned(opts, schemaData, data[prop])))

JsonSchemaSanitise(schema, dataToSanitise, options) ==
  JsonSchemaSanitiseFrom(schema.properties, dataToSanitise, SanitiseOpts(options), 1, <<>>)

\* what _.mapValues yields for a property its callback returns nothing for,
\* and for one whose value is the promise of the nested call
UndefinedValue == [type |-> "undefined", value |-> Undefined]
PromiseValue == [type |-> "promise", value |-> Undefined]

\* JsonSchema.sanitise of src/lib/JsonSchema.js: _.mapValues over every
\* property of the schema
mapValuesSanitise(schema, dataToSanitise, options) ==
  LET opts == SanitiseOpts(options)
      props == schema.properties
      thrown == {prop \in DOMAIN props :
                  prop \in DOMAIN dataToSanitise /\ omitProp(opts, props[prop]) /\ opts.strict}
      first == CHOOSE i \in 1 .. Len(KeyOrder) :
                 /\ KeyOrder[i] \in thrown
                 /\ \A j \in 1 .. i - 1 : KeyOrder[j] \notin thrown
  IN IF thrown # {} THEN Protected(KeyOrder[first], <<>>)
     ELSE Sanitised([prop \in DOMAIN props |->
            IF prop \notin DOMAIN dataToSanitise THEN UndefinedValue
            ELSE IF IsNested(props[prop]) THEN PromiseValue
            ELSE Cleaned(opts, props[prop], dataToSanitise[prop])])

RECURSIVE legacySanitiseFrom(_, _, _, _, _)
\* sanitise of part_005 from the i-th property on: one memo for every depth,
\* the promise of the nested call returned to forEach
legacySanitiseFrom(props, data, opts, i, memo) ==
  IF i > Len(KeyOrder) THEN Sanitised(memo)
  ELSE LET prop == KeyOrder[i]
           conf == props[prop]
       IN IF prop \notin DOMAIN props THEN legacySanitiseFrom(props, data, opts, i + 1, memo)
          ELSE IF prop \notin DOMAIN data \/ omitProp(opts, conf)
          THEN IF Flagged(conf, "isInternal") /\ opts.strict THEN Protected(prop, memo)
               ELSE legacySanitiseFrom(props, data, opts, i + 1, memo)
          ELSE IF IsNested(conf)
          THEN legacySanitiseFrom(props, data, opts, i + 1,
                 legacySanitiseFrom(conf.properties, data[prop].value, opts, 1, memo).memo)
          ELSE legacySanitiseFrom(props, data, opts, i + 1, SetField(memo, prop, data[prop]))

legacySanitise(schema, dataToSanitise, options) ==
  legacySanitiseFrom(schema.properties, dataToSanitise, SanitiseOpts(options), 1, <<>>)

SanitiseData ==
  {MkObj([title |-> t, secret |-> k, ro |-> r, meta |-> m]) :
     t \in {<<>>, <<Sv("<s>")>>}, k \in {<<>>, <<Sv("k")>>}, r \in {<<>>, <<Sv("r")>>},
     m \in {<<>>, <<Ov(<<>>)>>, <<Ov([a |-> Sv("x")])>>, <<Ov([hidden |-> Sv("h")])>>,
            <<Ov([a |-> Sv("x"), hidden |-> Sv("h")])>>}}

SanitiseOptions ==
  {MkObj([isInternal |-> i, isReadOnly |-> r, strict |-> st]) :
     i \in {<<>>, <<TRUE>>, <<FALSE>>}, r \in {<<>>, <<TRUE>>},
     st \in {<<>>, <<TRUE>>, <<FALSE>>}}

SanitiseImpls == {"JsonSchemaModule", "JsonSchema", "lib/JsonSchema", "part_005"}

\* one call of sanitise of one of the revisions
SanitiseCall(impl, data, options) ==
  /\ vx = IdleVx
  /\ vx' = [op |-> "sanitise", impl |-> impl, data |-> data, options |-> options,
            out |-> <<CASE impl = "JsonSchemaModule" -> sanitise(ValidateSchema, data, options)
                        [] impl = "JsonSchema" -> JsonSchemaSanitise(ValidateSchema, data, options)
                        [] impl = "lib/JsonSchema" ->
                             mapValuesSanitise(ValidateSchema, data, options)
                        [] OTHER -> legacySanitise(ValidateSchema, data, options)>>]
  /\ UNCHANGED <<regVars, px, entities, wrapper>>

-----------------------------------------------------------------------------
(* String formats: a RegExp is [source, starHeight, repetitions], the two
   numbers being what safe-regex measures of it; validator.formats is a
   function from format names to RegExps *)

\* /.*/
defaultRegExp == [source |-> ".*", starHeight |-> 1, repetitions |-> 1]

RegExp(source, starHeight, repetitions) ==
  [source |-> source, starHeight |-> starHeight, repetitions |-> repetitions]

\* safe-regex: false for a star height above 1 or for more than 25 repetitions
safeRegex(re) == re.starHeight <= 1 /\ re.repetitions <= 25

\* validator.addFormat(name, format) for every entry of `more`
addFormats(formats, more) ==
  [n \in DOMAIN formats \cup DOMAIN more |->
     IF n \in DOMAIN more THEN more[n] ELSE formats[n]]

\* the formats initFormats of lib/jsonSchemaModule.js adds first
InitFormatDefaults ==
  [n \in {"date-time", "email", "password", "time", "uri"} |->
     CASE n = "date-time" -> RegExp("[A-za-z0-9:+()]+", 1, 1)
       [] n = "email" -> RegExp("email", 1, 3)
       [] n = "password" -> defaultRegExp
       [] n = "time" -> RegExp("time", 0, 5)
       [] OTHER -> RegExp("uri", 1, 3)]

\* initFormats of lib/jsonSchemaModule.js: the defaults, the formatOverrides
\* of the configuration, then every unsafe format is logged and replaced
initFormats(overrides) ==
  LET formats == addFormats(InitFormatDefaults, overrides) IN
  [formats |-> [n \in DOMAIN formats |->
                  IF safeRegex(formats[n]) THEN formats[n] ELSE defaultRegExp],
   warnings |-> {n \in DOMAIN formats : ~safeRegex(formats[n])},
   err |-> "none"]

\* the formats overrideFormats of lib/Keywords.js adds first
OverrideFormatDefaults ==
  [n \in {"date-time", "email", "objectid", "time", "hostname", "ipv4", "ipv6",
          "json-pointer-uri-fragment", "json-pointer", "relative-json-pointer",
          "uri-reference", "uri-template", "uri", "url", "uuid"} |->
     CASE n = "date-time" -> RegExp("date-time", 0, 7)
       [] n = "email" -> RegExp("email", 1, 3)
       [] n = "objectid" -> RegExp("objectid", 0, 1)
       [] n = "time" -> RegExp("time", 0, 5)
       [] OTHER -> defaultRegExp]

\* the order of Object.entries(validator._formats): the order of insertion
FormatOrder ==
  <<"date-time", "email", "objectid", "time", "hostname", "ipv4", "ipv6",
    "json-pointer-uri-fragment", "json-pointer", "relative-json-pointer",
    "uri-reference", "uri-template", "uri", "url", "uuid", "custom">>

\* checkFormats of lib/Keywords.js: defaultRegExp is a constant of
\* overrideFormats and is not in scope here, so the addFormat call of the
\* first unsafe format throws a ReferenceError after its warning
checkFormats(formats) ==
  LET unsafe == {i \in 1..Len(FormatOrder) :
                   /\ FormatOrder[i] \in DOMAIN formats
                   /\ ~safeRegex(formats[FormatOrder[i]])} IN
  IF unsafe = {} THEN [formats |-> formats, warnings |-> {}, err |-> "none"]
  ELSE [formats |-> formats,
        warnings |-> {FormatOrder[CHOOSE i \in unsafe : \A j \in unsafe : i <= j]},
        err |-> "ReferenceError"]

\* overrideFormats of lib/Keywords.js
overrideFormats(overrides) == checkFormats(addFormats(OverrideFormatDefaults, overrides))

\* the names and the RegExps of the formatOverrides of the configuration
OverrideNames == {"email", "uri", "custom"}

OverridePatterns == {RegExp("a+", 1, 1), RegExp("(a+)+", 2, 2), RegExp("a?x26", 1, 26)}

FormatOverrides == UNION {[S -> OverridePatterns] : S \in SUBSET OverrideNames}

FormatImpls == {"JsonSchemaModule", "lib/Keywords"}

InitFormatsCall(impl, overrides) ==
  /\ vx = IdleVx
  /\ vx' = [op |-> "initFormats", impl |-> impl, data |-> overrides, options |-> <<>>,
            out |-> <<IF impl = "JsonSchemaModule" THEN initFormats(overrides)
                      ELSE overrideFormats(overrides)>>]
  /\ UNCHANGED <<regVars, px, entities, wrapper>>

-----------------------------------------------------------------------------
(* The keywords of lib/Keywords.js: a compiled keyword is called with the
   value, the object holding it and the key it is held under *)

\* the time value of a Date, written as toISOString writes it; "NaN" is the
\* time value of an Invalid Date
Dv(time) == [type |-> "date", value |-> time]

\* Date.parse
DateParse(string) ==
  CASE string = "1970-01-01T00:00:00.000Z" -> "1970-01-01T00:00:00.000Z"
    [] string = "1970-01-02" -> "1970-01-02T00:00:00.000Z"
    [] OTHER -> "NaN"

\* new Date(value): never throws for a string, an unparsable one gives the
\* Invalid Date
NewDate(value) == [threw |-> FALSE, date |-> Dv(DateParse(value.value))]

\* isDate: try { parentData[parentDataProperty] = new Date(value); return true }
\*         catch(e) { return false }
isDate(value, parentData, parentDataProperty) ==
  LET made == NewDate(value) IN
  IF made.threw THEN [valid |-> FALSE, parentData |-> parentData]
  ELSE [valid |-> TRUE, parentData |-> SetField(parentData, parentDataProperty, made.date)]

DateStrings == {"1970-01-01T00:00:00.000Z", "1970-01-02", "tomorrow", ""}

DateKeys == {"start", "end", "due"}

\* objects whose string properties carry isDate
DateData == UNION {[S -> {Sv(d) : d \in DateStrings}] : S \in SUBSET DateKeys}

IsDateCall(parentData, parentDataProperty) ==
  /\ vx = IdleVx
  /\ parentDataProperty \in DOMAIN parentData
  /\ vx' = [op |-> "isDate", impl |-> "Keywords", data |-> parentData,
            options |-> [parentDataProperty |-> parentDataProperty],
            out |-> <<isDate(parentData[parentDataProperty], parentData,
                             parentDataProperty)>>]
  /\ UNCHANGED <<regVars, px, entities, wrapper>>

-----------------------------------------------------------------------------
(* The module of lib/JsonSchemaModule.js: it holds a library object
   (this._library) and forwards to it.  The library is the object the tests
   give the module: its operations record their calls, its fields are what
   the accessors read.  `invoked` is what the callers asked of the module,
   `returned` what the last accessor gave. *)

MaxCalls == 3

\* createInstance: mockSchemas
mockSchemas ==
  [schemas |-> <<>>, schemaExtensions |-> <<>>, xssWhitelist |-> <<>>, validator |-> <<>>,
   calls |-> <<>>]

\* the dependencies of the app, the module itself among them, and what glob
\* finds in each
WrapperDeps == {"d1", "d2", "adapt-authoring-jsonschema"}

WrapperDepFiles(d) ==
  IF d = "d1" THEN <<"base.schema.json", "bad.schema.json">>
  ELSE IF d = "d2" THEN <<"b.schema.json", "e1.schema.json">>
  ELSE <<"own.schema.json">>

\* no registerSchemas call has been made
IdleRun == [pc |-> "idle", deps |-> [d \in WrapperDeps |-> "idle"], pending |-> {},
            rejected |-> {}, warned |-> {}, hook |-> FALSE]

NewWrapper == [library |-> mockSchemas, invoked |-> <<>>, returned |-> <<>>, run |-> IdleRun]

\* mock.fn(): a call on the library records its name and its arguments
mockFn(library, op, arguments) ==
  [library EXCEPT !.calls = Append(@, [op |-> op, arguments |-> arguments])]

\* a mutation: the options of addKeyword are not passed on
addKeywordWithoutOptions(library, definition, options) ==
  mockFn(library, "addKeyword", <<definition>>)

\* await this._library.resetSchemaRegistry()
resetSchemaRegistry(library) == mockFn(library, "resetSchemaRegistry", <<>>)

\* this._library.addStringFormats(formats)
addStringFormats(library, formats) == mockFn(library, "addStringFormats", <<formats>>)

\* this._library.addKeyword(definition, options)
addKeyword(library, definition, options) ==
  mockFn(library, "addKeyword", <<definition, options>>)

\* this._library.deregisterSchema(name)
wrapperDeregisterSchema(library, name) == mockFn(library, "deregisterSchema", <<name>>)

\* this._library.extendSchema(baseSchemaName, extSchemaName)
wrapperExtendSchema(library, baseSchemaName, extSchemaName) ==
  mockFn(library, "extendSchema", <<baseSchemaName, extSchemaName>>)

\* get schemas / schemaExtensions / xssWhitelist / validator
Accessors == {"schemas", "schemaExtensions", "xssWhitelist", "validator"}

accessor(library, name) == library[name]

\* a call of a method of the module
Invoke(op, arguments, library) ==
  /\ Len(wrapper.invoked) < MaxCalls
  /\ wrapper' = [wrapper EXCEPT
                   !.library = library,
                   !.invoked = Append(@, [op |-> op, arguments |-> arguments]),
                   !.returned = <<>>]
  /\ UNCHANGED <<regVars, px, vx, entities>>

ModuleResetSchemaRegistry ==
  Invoke("resetSchemaRegistry", <<>>, resetSchemaRegistry(wrapper.library))

ModuleAddStringFormats(formats) ==
  Invoke("addStringFormats", <<formats>>, addStringFormats(wrapper.library, formats))

ModuleAddKeyword(definition, options) ==
  Invoke("addKeyword", <<definition, options>>,
         addKeyword(wrapper.library, definition, options))

ModuleDeregisterSchema(name) ==
  Invoke("deregisterSchema", <<name>>, wrapperDeregisterSchema(wrapper.library, name))

ModuleExtendSchema(baseSchemaName, extSchemaName) ==
  Invoke("extendSchema", <<baseSchemaName, extSchemaName>>,
         wrapperExtendSchema(wrapper.library, baseSchemaName, extSchemaName))

\* one of the accessors is read
ModuleGet(name) ==
  /\ wrapper' = [wrapper EXCEPT
                   !.returned = <<[accessor |-> name,
                                   value |-> accessor(wrapper.library, name)]>>]
  /\ UNCHANGED <<regVars, px, vx, entities>>

\* Promise.all resolving as soon as one callback has resolved
anyResolved(deps) == \E d \in WrapperDeps : deps[d] = "done"

\* Promise.all(...): resolves when the callback of every dependency has resolved
allResolved(deps) == \A d \in WrapperDeps : deps[d] = "done"

RECURSIVE registerAll(_, _)
\* files.map(f => this.registerSchema(f)): registerSchema runs to its await,
\* the call of the library, for each file in turn
registerAll(library, files) ==
  IF files = <<>> THEN library
  ELSE registerAll(mockFn(library, "registerSchema", <<Head(files), <<>>>>), Tail(files))

\* registerSchemas(options) up to its first await: the reset of the library
RegisterSchemasCall ==
  /\ wrapper.run.pc = "idle"
  /\ wrapper' = [wrapper EXCEPT !.library = resetSchemaRegistry(@), !.run.pc = "reset"]
  /\ UNCHANGED <<regVars, px, vx, entities>>

\* the reset settles: a rejection rejects registerSchemas; otherwise one
\* callback per dependency starts, the one of the module itself returns at once
ResetSettles(ok) ==
  /\ wrapper.run.pc = "reset"
  /\ wrapper' = [wrapper EXCEPT
                   !.run.pc = IF ok THEN "running" ELSE "rejected",
                   !.run.deps = IF ok
                                THEN [d \in WrapperDeps |->
                                        IF d = "adapt-authoring-jsonschema" THEN "done"
                                        ELSE "glob"]
                                ELSE @]
  /\ UNCHANGED <<regVars, px, vx, entities>>

\* the glob of dependency d settles: registerSchema is called for each file
\* found; a rejection rejects the callback and with it Promise.all
WrapperGlobSettles(d, ok) ==
  /\ wrapper.run.deps[d] = "glob"
  /\ wrapper' =
       IF ok
       THEN [wrapper EXCEPT
               !.library = registerAll(@, WrapperDepFiles(d)),
               !.run.pending = @ \cup {[dep |-> d, file |-> f] : f \in Range(WrapperDepFiles(d))},
               !.run.deps[d] = "files"]
       ELSE [wrapper EXCEPT !.run.deps[d] = "failed",
                            !.run.pc = IF @ = "running" THEN "rejected" ELSE @]
  /\ UNCHANGED <<regVars, px, vx, entities>>

\* a registerSchema of the run settles; with the last one of its dependency
\* allSettled resolves, the rejections are logged and the callback resolves
RegistrationSettles(r, ok) ==
  /\ r \in wrapper.run.pending
  /\ LET pending == wrapper.run.pending \ {r}
         rejected == IF ok THEN wrapper.run.rejected ELSE wrapper.run.rejected \cup {r}
         last == \A u \in pending : u.dep # r.dep
     IN wrapper' = [wrapper EXCEPT
                      !.run.pending = pending,
                      !.run.rejected = rejected,
                      !.run.warned = IF last THEN @ \cup {u \in rejected : u.dep = r.dep} ELSE @,
                      !.run.deps[r.dep] = IF last THEN "done" ELSE @]
  /\ UNCHANGED <<regVars, px, vx, entities>>

\* await this.registerSchemasHook.invoke(), once Promise.all has resolved
InvokeRegisterSchemasHook ==
  /\ wrapper.run.pc = "running"
  /\ allResolved(wrapper.run.deps)
  /\ wrapper' = [wrapper EXCEPT !.run.hook = TRUE, !.run.pc = "resolved"]
  /\ UNCHANGED <<regVars, px, vx, entities>>

\* an error of the library, a plain error and an error of the application
SchemaError(code, data) == [class |-> "SchemaError", code |-> code, data |-> data]

PlainError(code) == [class |-> "Error", code |-> code, data |-> <<>>]

\* this.app.errors[code].setData(data)
setData(code, data) == [class |-> "AdaptError", code |-> code, data |-> data]

Fulfilled(value) == [settled |-> "fulfilled", value |-> value]

Rejected(reason) == [settled |-> "rejected", reason |-> reason]

\* the catch of registerSchema converting whatever carries a known code
registerSchemaCatchAnyClass(e, errors) ==
  IF e.code \in errors THEN setData(e.code, e.data) ELSE e

\* the catch of registerSchema: what is thrown for the error e of the library,
\* errors being the keys of this.app.errors
registerSchemaCatch(e, errors) ==
  IF e.class = "SchemaError" /\ e.code \in errors THEN setData(e.code, e.data) ELSE e

\* the catch of getSchema
getSchemaCatch(e, schemaName) ==
  IF e.class = "SchemaError" /\ e.code = "MISSING_SCHEMA"
  THEN setData("MISSING_SCHEMA", [schemaName |-> schemaName])
  ELSE e

\* what the library may answer to registerSchema and getSchema
LibraryErrors ==
  {SchemaError(c, d) : c \in {"MISSING_SCHEMA", "SCHEMA_EXISTS", "SCHEMA_LOAD_FAILED"},
                       d \in {[schemaName |-> "B"], [filePath |-> "b.schema.json"]}}
  \cup {PlainError("MISSING_SCHEMA"), PlainError("ENOENT")}

LibraryOutcomes == {Fulfilled("B")} \cup {Rejected(e) : e \in LibraryErrors}

\* the keys of this.app.errors
AppErrors == {{"MISSING_SCHEMA"}, {"MISSING_SCHEMA", "SCHEMA_EXISTS"}}

\* registerSchema(filePath, options) of the module, the library answering
\* with outcome
ModuleRegisterSchema(filePath, options, outcome, errors) ==
  /\ Len(wrapper.invoked) < MaxCalls
  /\ wrapper' = [wrapper EXCEPT
       !.library = mockFn(@, "registerSchema", <<filePath, options>>),
       !.invoked = Append(@, [op |-> "registerSchema", arguments |-> <<filePath, options>>]),
       !.returned = <<[library |-> outcome, errors |-> errors,
                       module |-> IF outcome.settled = "fulfilled" THEN outcome
                                  ELSE Rejected(registerSchemaCatch(outcome.reason, errors))]>>]
  /\ UNCHANGED <<regVars, px, vx, entities>>

\* getSchema(schemaName, options) of the module, the library answering with
\* outcome
ModuleGetSchema(schemaName, options, outcome, errors) ==
  /\ Len(wrapper.invoked) < MaxCalls
  /\ wrapper' = [wrapper EXCEPT
       !.library = mockFn(@, "getSchema", <<schemaName, options>>),
       !.invoked = Append(@, [op |-> "getSchema", arguments |-> <<schemaName, options>>]),
       !.returned = <<[library |-> outcome, errors |-> errors,
                       module |-> IF outcome.settled = "fulfilled" THEN outcome
                                  ELSE Rejected(getSchemaCatch(outcome.reason, schemaName))]>>]
  /\ UNCHANGED <<regVars, px, vx, entities>>

\* the values the tests give the fields of the library
LibraryValue(field) ==
  CASE field = "schemas" -> [test |-> [name |-> "test"]]
    [] field = "schemaExtensions" -> [ext |-> <<>>]
    [] field = "xssWhitelist" -> [a |-> <<"href">>]
    [] OTHER -> [validate |-> "function"]

\* the library changes one of its fields (mockSchemas.schemas = ...)
LibrarySets(field) ==
  /\ wrapper.library[field] # LibraryValue(field)
  /\ wrapper' = [wrapper EXCEPT !.library[field] = LibraryValue(field), !.returned = <<>>]
  /\ UNCHANGED <<regVars, px, vx, entities>>

\* the arguments of the tests
WrapperFormats == {[email |-> defaultRegExp]}

WrapperDefinitions == {[keyword |-> "test"]}

WrapperOptions == {<<>>, <<[override |-> TRUE]>>}

WrapperNames == {"test", "base"}

WrapperExtensions == {"ext"}

-----------------------------------------------------------------------------
(* The module as a state machine *)

\* the latest value of Date.now() the model reaches
MaxTime == 2

RegStatic == <<config, batch, log, px, vx, wrapper, entities>>

\* every order in which the members of a list can come
Orders(list) ==
  {o \in [1 .. Len(list) -> Range(list)] :
     \A v \in Range(list) :
       Cardinality({i \in 1 .. Len(list) : o[i] = v})
         = Cardinality({i \in 1 .. Len(list) : list[i] = v})}

\* this.schemaPaths[name] is set
Registered(name) == schemaPaths[name] # NoPath

\* registerSchema(filePath, options) up to its file read
RegisterStart(filePath, replace) ==
  /\ Cardinality(tasks) < MaxTasks
  /\ IF ~IsString(filePath)
     THEN /\ call' = [NoCall EXCEPT !.op = "registerSchema", !.file = filePath,
                                     !.replace = replace, !.err = "INVALID_PARAMS"]
          /\ UNCHANGED tasks
     ELSE /\ [file |-> filePath, replace |-> replace, dep |-> "api"] \notin tasks
          /\ tasks' = tasks \cup {[file |-> filePath, replace |-> replace, dep |-> "api"]}
          /\ UNCHANGED call
  /\ UNCHANGED <<schemaPaths, schemaExtensions, schemaCache, now, RegStatic>>

\* registerSchema from the moment its file read settles to its return or throw
RegisterFinish(t) ==
  LET r == registerSchema(schemaPaths, schemaExtensions, t.file, t.replace)
  IN /\ t.dep = "api"
     /\ \A n \in Names : Len(r.exts[n]) <= MaxExt
     /\ schemaPaths' = r.paths
     /\ schemaExtensions' = r.exts
     /\ tasks' = tasks \ {t}
     /\ call' = [NoCall EXCEPT !.op = "registerSchema", !.name = r.name, !.file = t.file,
                               !.replace = t.replace, !.err = r.err, !.errors = r.errors]
     /\ UNCHANGED <<schemaCache, now, RegStatic>>

\* deregisterSchema(name); the call record keeps the path the name had
DeregisterSchema(name) ==
  /\ schemaPaths' = deregisterSchema(schemaPaths, name)
  /\ call' = [NoCall EXCEPT !.op = "deregisterSchema", !.name = name,
                            !.file = schemaPaths[name]]
  /\ UNCHANGED <<schemaExtensions, schemaCache, now, tasks, RegStatic>>

ExtendSchema(baseSchemaName, extSchemaName) ==
  LET r == extendSchema(schemaExtensions, baseSchemaName, extSchemaName)
  IN /\ \A n \in Names : Len(r.exts[n]) <= MaxExt
     /\ schemaExtensions' = r.exts
     /\ call' = [NoCall EXCEPT !.op = "extendSchema", !.name = baseSchemaName,
                               !.file = extSchemaName, !.err = r.err]
     /\ UNCHANGED <<schemaPaths, schemaCache, now, tasks, RegStatic>>

\* the schemas that files or callers of the model extend
ExtBases == {"B", "N"}

\* per schema, an order in which the getSchema calls of its extensions may settle
SettleOrders(exts) ==
  {[n \in Names |-> IF n \in ExtBases THEN o[n] ELSE exts[n]] :
     o \in {f \in [ExtBases -> UNION {Orders(exts[b]) : b \in ExtBases}] :
              \A b \in ExtBases : f[b] \in Orders(exts[b])}}

\* getSchema(schemaName, options), from call to return or throw; every
\* schemaCache.get of the call prunes first, every loadSchema ends in a set
GetSchema(schemaName, options) ==
  \E ord \in SettleOrders(schemaExtensions) :
    /\ LET pruned == prune(schemaCache, now, config.lifespan)
           r == getSchemaR([paths |-> schemaPaths, exts |-> schemaExtensions,
                            cache |-> pruned, isEnabled |-> config.isEnabled],
                           ord, schemaName, options, MaxDepth)
       IN /\ schemaCache' = cacheSetAll(IF r.gets THEN pruned ELSE schemaCache, r.sets, now)
          /\ call' = [NoCall EXCEPT !.op = "getSchema", !.name = schemaName, !.err = r.err,
                        !.id = r.id,
                        !.res = IF r.err = "none" THEN <<r.compiled.schema>> ELSE <<>>]
    /\ UNCHANGED <<schemaPaths, schemaExtensions, now, tasks, RegStatic>>

Tick ==
  /\ now < MaxTime
  /\ now' = now + 1
  /\ UNCHANGED <<schemaPaths, schemaExtensions, schemaCache, tasks, call, RegStatic>>

\* SchemaCache.get(schemaName): prune, then read
CacheGet(schemaName) ==
  /\ schemaCache' = prune(schemaCache, now, config.lifespan)
  /\ call' = [NoCall EXCEPT !.op = "cacheGet", !.name = schemaName,
                            !.res = cacheGet(schemaCache', schemaName, config.isEnabled)]
  /\ UNCHANGED <<schemaPaths, schemaExtensions, now, tasks, RegStatic>>

\* part_006 registerSchema(filePath, options) up to its file read
LegacyRegisterStart(filePath, replace) ==
  /\ Cardinality(tasks) < MaxTasks
  /\ [file |-> filePath, replace |-> replace, dep |-> "legacy"] \notin tasks
  /\ tasks' = tasks \cup {[file |-> filePath, replace |-> replace, dep |-> "legacy"]}
  /\ UNCHANGED <<schemaPaths, schemaExtensions, schemaCache, now, call, RegStatic>>

\* part_006 registerSchema from the moment its file read settles to its return
LegacyRegisterFinish(t) ==
  LET r == legacyRegisterSchema(schemaPaths, schemaExtensions, t.file, t.replace)
  IN /\ t.dep = "legacy"
     /\ \A n \in Names : Len(r.exts[n]) <= MaxExt
     /\ schemaPaths' = r.paths
     /\ schemaExtensions' = r.exts
     /\ tasks' = tasks \ {t}
     /\ log' = IF r.logged = "none" THEN log
               ELSE log \cup {[level |-> r.logged, file |-> t.file, err |-> "registerSchema"]}
     /\ call' = [NoCall EXCEPT !.op = "registerSchema", !.name = r.name, !.file = t.file,
                               !.replace = t.replace]
     /\ UNCHANGED <<schemaCache, config, now, batch, px, vx, wrapper, entities>>

\* part_006 getSchema(schemaName, {}), from call to return or throw
LegacyGetSchema(schemaName) ==
  LET r == legacyGetSchema(schemaPaths, schemaExtensions, schemaCache, config.isEnabled,
                           config.lifespan, schemaName, now)
  IN /\ schemaCache' = r.cache
     /\ log' = log \cup r.warnings
     /\ call' = [NoCall EXCEPT !.op = "getSchema", !.name = schemaName, !.err = r.err,
                               !.id = r.id, !.res = r.res]
     /\ UNCHANGED <<schemaPaths, schemaExtensions, config, now, tasks, batch, px, vx, wrapper, entities>>

\* createSchema: new JsonSchema({ filePath, ... })
NewJsonSchema(i, filePath) ==
  /\ entities[i].state = "none"
  /\ entities' = [entities EXCEPT ![i] = [NoEntity EXCEPT !.state = "new", !.filePath = filePath]]
  /\ UNCHANGED <<regVars, px, vx, wrapper>>

\* JsonSchema.load() of instance i
Load(i) ==
  /\ entities[i].state = "new"
  /\ LET r == load(entities[i].filePath)
     IN entities' = [entities EXCEPT ![i] =
                       [@ EXCEPT !.state = IF r.err = "none" THEN "loaded" ELSE "failed",
                                 !.raw = r.raw, !.name = r.name,
                                 !.err = r.err, !.errors = r.errors]]
  /\ UNCHANGED <<regVars, px, vx, wrapper>>

-----------------------------------------------------------------------------
(* JsonSchema.build: the calls of build() that are suspended at an await are
   the records of `tasks`: [op, id, schema, caller, options, pc, built, parent,
   err], where schema is the entity being built, caller the id of the call that
   awaits this one (0: a caller outside), pc the await the call is suspended
   at, built the local `built`, parent the entity the local `parent` holds.
   Entities are constructed with enableCache false, so that build never asks
   isBuildValid; nothing adds to `extensions`, which stays empty. *)

\* how many build() calls made from outside may be unreturned at once
MaxCallers == 2

\* the awaits inside the body of build, between isBuilding = true and = false
BodyPcs == {"waitForModule", "getParent", "parentBuild", "compileAsync"}

NewBuild(id, i, caller, options) ==
  [op |-> "build", id |-> id, schema |-> i, caller |-> caller, options |-> options,
   pc |-> "waitForModule", built |-> <<>>, parent |-> 0, err |-> "none"]

\* an id no suspended call has
FreshId(ts) == CHOOSE k \in 1 .. Cardinality(ts) + 1 : \A f \in ts : f.id # k

\* the registry's lookup of an entity by name: its index, 0 when there is none
schemaIndex(es, name) ==
  IF \E i \in DOMAIN es : es[i].state = "loaded" /\ es[i].name = name
  THEN CHOOSE i \in DOMAIN es : es[i].state = "loaded" /\ es[i].name = name
  ELSE 0

\* getParent(): the name getSchema is asked for, <<>> for the base schema
parentName(e) ==
  IF e.name = BASE_SCHEMA_NAME THEN <<>>
  ELSE IF e.raw # <<>> /\ Has(e.raw[1], "merge") /\ Has(e.raw[1].merge, "source")
          /\ Has(e.raw[1].merge.source, "ref")
  THEN <<e.raw[1].merge.source.ref>>
  ELSE <<BASE_SCHEMA_NAME>>

\* a build that ignores the building flag
neverJoins(e) == FALSE

\* if (this.isBuilding): the call joins the build in flight
joinsInFlight(e) == e.isBuilding

\* build(options) of entity i up to its first await: the call either taps
\* buildHook or sets isBuilding and suspends at waitForModule
enter(ts, es, id, i, caller, options) ==
  IF joinsInFlight(es[i])
  THEN [tasks |-> ts \cup {[NewBuild(id, i, caller, options) EXCEPT !.pc = "buildHook"]},
        entities |-> es]
  ELSE [tasks |-> ts \cup {NewBuild(id, i, caller, options)},
        entities |-> [es EXCEPT ![i].isBuilding = TRUE]]

\* the end of build: isBuilding = false, lastBuildTime = Date.now(),
\* buildHook.invoke(this) resolves every call that tapped the hook
complete(ts, es, f, t) ==
  [tasks |-> {IF g.id = f.id \/ (g.schema = f.schema /\ g.pc = "buildHook")
              THEN [g EXCEPT !.pc = "resolved"] ELSE g : g \in ts},
   entities |-> [es EXCEPT ![f.schema].isBuilding = FALSE,
                           ![f.schema].lastBuildTime = <<t>>]]

\* this.built = built, then compileAsync unless options.compile is false
finish(ts, es, f, built, t) ==
  LET es1 == [es EXCEPT ![f.schema].built = <<built>>]
      f1 == [f EXCEPT !.built = <<built>>, !.parent = 0]
      ts1 == (ts \ {f}) \cup {f1}
  IN IF Opt(f.options, "compile", TRUE)
     THEN [tasks |-> (ts \ {f}) \cup {[f1 EXCEPT !.pc = "compileAsync"]}, entities |-> es1]
     ELSE complete(ts1, es1, f1, t)

\* the call throws: the promise of build rejects, isBuilding stays as it is
reject(ts, es, f, err) ==
  [tasks |-> (ts \ {f}) \cup {[f EXCEPT !.pc = "rejected", !.err = err]}, entities |-> es]

\* parent = await who.getParent() with the local `built`: no parent ends the
\* loop, a missing parent rejects, otherwise getSchema builds the parent
getParent(ts, es, f, who, built, t) ==
  LET pn == parentName(es[who])
      j == schemaIndex(es, pn[1])
      f1 == [f EXCEPT !.pc = "getParent", !.built = <<built>>, !.parent = j]
  IN IF pn = <<>> THEN finish(ts, es, f, built, t)
     ELSE IF j = 0 THEN reject(ts, es, f, "MISSING_SCHEMA")
     ELSE enter((ts \ {f}) \cup {f1}, es, FreshId(ts), j, f.id, <<>>)

\* the calls awaited by f that have settled
Settled(f) == {c \in tasks : c.caller = f.id /\ c.pc \in {"resolved", "rejected"}}

\* build(options) called from outside on entity i
BuildCall(i, options) ==
  /\ entities[i].state = "loaded"
  /\ Cardinality({f \in tasks : f.caller = 0}) < MaxCallers
  /\ LET r == enter(tasks, entities, FreshId(tasks), i, 0, options)
     IN tasks' = r.tasks /\ entities' = r.entities
  /\ UNCHANGED <<schemaPaths, schemaExtensions, schemaCache, config, now, batch, log, call, px, vx, wrapper>>

\* let built = _.cloneDeep(this.raw); let parent = await this.getParent()
BuildGetParent(f) ==
  /\ f.pc = "waitForModule"
  /\ LET r == getParent(tasks, entities, f, f.schema, entities[f.schema].raw[1], now)
     IN tasks' = r.tasks /\ entities' = r.entities
  /\ UNCHANGED <<schemaPaths, schemaExtensions, schemaCache, config, now, batch, log, call, px, vx, wrapper>>

\* while (parent): parent.build({ ...options, compile: false })
BuildParent(f) ==
  /\ f.pc = "getParent"
  /\ \E c \in Settled(f) :
       LET ts == tasks \ {c}
           f1 == [f EXCEPT !.pc = "parentBuild"]
           r == IF c.pc = "rejected" THEN reject(ts, entities, f, c.err)
                ELSE enter((ts \ {f}) \cup {f1}, entities, FreshId(ts), f.parent, f.id,
                           SetField(f.options, "compile", FALSE))
       IN tasks' = r.tasks /\ entities' = r.entities
  /\ UNCHANGED <<schemaPaths, schemaExtensions, schemaCache, config, now, batch, log, call, px, vx, wrapper>>

\* built = await this.patch(parentBuilt, built, { strict: !parent.name === BASE_SCHEMA_NAME });
\* parent = await parent.getParent()
BuildPatch(f) ==
  /\ f.pc = "parentBuild"
  /\ \E c \in Settled(f) :
       LET ts == tasks \ {c}
           p == patch(entities[f.parent].built[1], f.built[1], [strict |-> FALSE])
           r == IF c.pc = "rejected" THEN reject(ts, entities, f, c.err)
                ELSE IF p.err # "none" THEN reject(ts, entities, f, p.err)
                ELSE getParent(ts, entities, f, f.parent, p.schema, now)
       IN tasks' = r.tasks /\ entities' = r.entities
  /\ UNCHANGED <<schemaPaths, schemaExtensions, schemaCache, config, now, batch, log, call, px, vx, wrapper>>

\* this.compiled = await this.validator.compileAsync(built), to the end of build
BuildCompile(f) ==
  /\ f.pc = "compileAsync"
  /\ LET r == complete(tasks, entities, f, now)
     IN tasks' = r.tasks /\ entities' = r.entities
  /\ UNCHANGED <<schemaPaths, schemaExtensions, schemaCache, config, now, batch, log, call, px, vx, wrapper>>

\* the promise of a build() called from outside settles for its caller
BuildReturn(f) ==
  /\ f.caller = 0
  /\ f.pc \in {"resolved", "rejected"}
  /\ tasks' = tasks \ {f}
  /\ call' = [NoCall EXCEPT !.op = "build", !.name = entities[f.schema].name, !.err = f.err,
                            !.res = IF f.pc = "resolved" THEN entities[f.schema].built
                                    ELSE <<>>]
  /\ UNCHANGED <<schemaPaths, schemaExtensions, schemaCache, config, now, batch, log, px, vx, wrapper,
                 entities>>

RegFiles == {"base.schema.json", "b.schema.json", "b2.schema.json", "e1.schema.json"}

\* the dependencies of the app and what glob('schema/*.schema.json') finds in each
Deps == {"d1", "d2"}

DepFiles(d) ==
  IF d = "d1" THEN {"base.schema.json", "bad.schema.json"}
  ELSE {"b.schema.json", "e1.schema.json"}

IdleBatch == [outcome |-> "idle", deps |-> [d \in Deps |-> "idle"],
              rejected |-> [d \in Deps |-> {}]]

\* registerSchemas() up to its first await: the paths are emptied and one
\* callback per dependency starts its glob
RegisterSchemas ==
  /\ tasks = {} /\ \A d \in Deps : batch.deps[d] # "glob"
  /\ schemaPaths' = [n \in Names |-> NoPath]
  /\ batch' = [outcome |-> "running", deps |-> [d \in Deps |-> "glob"],
               rejected |-> [d \in Deps |-> {}]]
  /\ UNCHANGED <<schemaExtensions, schemaCache, config, now, tasks, log, call, px, vx, wrapper, entities>>

\* the promise of registerSchemas once the callback of a dependency has
\* settled: Promise.all rejects with the first rejection and resolves when
\* every callback has resolved
BatchOutcome(outcome, deps) ==
  IF outcome # "running" THEN outcome
  ELSE IF \E d \in Deps : deps[d] = "failed" THEN "rejected"
  ELSE IF \A d \in Deps : deps[d] = "done" THEN "resolved"
  ELSE "running"

\* the glob of dependency d settles: with its files, for each of which
\* registerSchema is called, or with an error, which the callback does not catch
GlobSettles(d, ok) ==
  /\ batch.deps[d] = "glob"
  /\ LET deps == [batch.deps EXCEPT ![d] = IF ~ok THEN "failed"
                                            ELSE IF DepFiles(d) = {} THEN "done" ELSE "files"]
     IN batch' = [batch EXCEPT !.deps = deps, !.outcome = BatchOutcome(@, deps)]
  /\ tasks' = IF ok THEN tasks \cup {[file |-> f, replace |-> FALSE, dep |-> d] : f \in DepFiles(d)}
              ELSE tasks
  /\ UNCHANGED <<schemaPaths, schemaExtensions, schemaCache, config, now, log, call, px, vx, wrapper, entities>>

\* a registerSchema of the batch settles; when it is the last one of its
\* dependency, allSettled resolves and every rejection is logged as a warning
BatchRegisterFinish(t) ==
  LET d == t.dep
      r == registerSchema(schemaPaths, schemaExtensions, t.file, t.replace)
      rejected == IF r.err = "none" THEN batch.rejected[d]
                  ELSE batch.rejected[d] \cup {[file |-> t.file, err |-> r.err]}
      last == \A u \in tasks \ {t} : u.dep # d
      deps == IF last THEN [batch.deps EXCEPT ![d] = "done"] ELSE batch.deps
  IN /\ d \in Deps
     /\ \A n \in Names : Len(r.exts[n]) <= MaxExt
     /\ schemaPaths' = r.paths
     /\ schemaExtensions' = r.exts
     /\ tasks' = tasks \ {t}
     /\ batch' = [batch EXCEPT !.rejected[d] = rejected, !.deps = deps,
                               !.outcome = BatchOutcome(@, deps)]
     /\ log' = IF last
               THEN log \cup {[level |-> "warn", file |-> x.file, err |-> x.err] : x \in rejected}
               ELSE log
     /\ UNCHANGED <<schemaCache, config, now, call, px, vx, wrapper, entities>>

Init ==
  /\ schemaPaths = [n \in Names |-> NoPath]
  /\ schemaExtensions = [n \in Names |-> <<>>]
  /\ schemaCache = NoCache
  /\ config = [isEnabled |-> TRUE, lifespan |-> 1]
  /\ now = 0
  /\ tasks = {}
  /\ batch = IdleBatch
  /\ log = {}
  /\ call = NoCall
  /\ px = IdlePx
  /\ vx = IdleVx
  /\ wrapper = NewWrapper
  /\ entities = NoEntities

Next ==
  \/ \E f \in RegFiles \cup {Undefined}, replace \in BOOLEAN : RegisterStart(f, replace)
  \/ \E t \in tasks : RegisterFinish(t)
  \/ \E n \in {"B", "E1"} : DeregisterSchema(n)
  \/ \E b \in {"B", Undefined}, e \in {"E1"} : ExtendSchema(b, e)
  \/ \E n \in {"B", "E1"} : GetSchema(n, <<>>)

Spec == Init /\ [][Next]_vars

\* a schema M that merges the schema B, with two documents that may be B: one
\* with a `properties` member and one without
MergeFiles == {"base.schema.json", "b.schema.json", "b2.schema.json", "m.schema.json"}

MergeNext ==
  \/ \E f \in MergeFiles, replace \in BOOLEAN : RegisterStart(f, replace)
  \/ \E t \in tasks : RegisterFinish(t)
  \/ \E n \in {"B", "M"} : GetSchema(n, <<>>)

SpecMerge == Init /\ [][MergeNext]_vars

\* the cache with a lifespan of 0, 1 or 2 ticks of the clock
CacheLifespans == {0, 1, 2}

CacheFiles == {"base.schema.json", "b.schema.json"}

CacheInit ==
  /\ schemaPaths = [n \in Names |-> NoPath]
  /\ schemaExtensions = [n \in Names |-> <<>>]
  /\ schemaCache = NoCache
  /\ config \in [isEnabled : {TRUE}, lifespan : CacheLifespans]
  /\ now = 0
  /\ tasks = {}
  /\ batch = IdleBatch
  /\ log = {}
  /\ call = NoCall
  /\ px = IdlePx
  /\ vx = IdleVx
  /\ wrapper = NewWrapper
  /\ entities = NoEntities

CacheNext ==
  \/ \E f \in CacheFiles : RegisterStart(f, FALSE)
  \/ \E t \in tasks : RegisterFinish(t)
  \/ GetSchema("B", <<>>)
  \/ CacheGet("B")
  \/ Tick

SpecCache == CacheInit /\ [][CacheNext]_vars

\* schema files with pairwise distinct names, two of them extensions of B that
\* define the same property
OrderFiles == {"base.schema.json", "b.schema.json", "e1.schema.json", "e2.schema.json"}

OrderNext ==
  \/ \E f \in OrderFiles : RegisterStart(f, FALSE)
  \/ \E t \in tasks : RegisterFinish(t)
  \/ GetSchema("B", <<>>)

SpecOrder == Init /\ [][OrderNext]_vars

\* E1 is recorded as an extension of B, by extendSchema or by the registration
\* of e1.schema.json, before any document named B is registered
ForwardNext ==
  \/ ~Registered("B") /\ ExtendSchema("B", "E1")
  \/ \E f \in {"base.schema.json", "e1.schema.json"} : RegisterStart(f, FALSE)
  \/ \E f \in {"b.schema.json", "b2.schema.json"}, replace \in BOOLEAN :
       "E1" \in Range(schemaExtensions["B"]) /\ RegisterStart(f, replace)
  \/ \E t \in tasks : RegisterFinish(t)
  \/ GetSchema("B", <<>>)

SpecForward == Init /\ [][ForwardNext]_vars

\* registrations that fail: a path that is no string, a file that is not
\* JSON, a name registered already and a $patch without a source reference
FailingFiles == {"b.schema.json", "b2.schema.json", "bad.schema.json", "e3.schema.json"}

FailingNext ==
  \/ \E f \in FailingFiles \cup {Undefined}, replace \in BOOLEAN : RegisterStart(f, replace)
  \/ \E t \in tasks : RegisterFinish(t)
  \/ DeregisterSchema("E3")
  \/ ExtendSchema("B", "E3")

SpecFailing == Init /\ [][FailingNext]_vars

\* E1 becomes an extension of B by its registration only, and is deregistered
DeregisterFiles == {"base.schema.json", "b.schema.json", "e1.schema.json"}

DeregisterNext ==
  \/ \E f \in DeregisterFiles : RegisterStart(f, FALSE)
  \/ \E t \in tasks : RegisterFinish(t)
  \/ DeregisterSchema("E1")
  \/ GetSchema("B", <<>>)
  \/ Tick

SpecDeregister == CacheInit /\ [][DeregisterNext]_vars

BatchNext ==
  \/ RegisterSchemas
  \/ \E d \in Deps, ok \in BOOLEAN : GlobSettles(d, ok)
  \/ \E t \in tasks : BatchRegisterFinish(t)

SpecBatch == Init /\ [][BatchNext]_vars

LegacyFiles == {"base.schema.json", "b.schema.json", "e1.schema.json"}

\* part_006: this.schemaCache = this.getConfig('enableCache') && {}
LegacyInit ==
  /\ schemaPaths = [n \in Names |-> NoPath]
  /\ schemaExtensions = [n \in Names |-> <<>>]
  /\ schemaCache = NoCache
  /\ config \in [isEnabled : BOOLEAN, lifespan : {1}]
  /\ now = 0
  /\ tasks = {}
  /\ batch = IdleBatch
  /\ log = {}
  /\ call = NoCall
  /\ px = IdlePx
  /\ vx = IdleVx
  /\ wrapper = NewWrapper
  /\ entities = NoEntities

LegacyNext ==
  \/ \E f \in LegacyFiles : LegacyRegisterStart(f, FALSE)
  \/ \E t \in tasks : LegacyRegisterFinish(t)
  \/ DeregisterSchema("B")
  \/ LegacyGetSchema("B")
  \/ Tick

SpecLegacy == LegacyInit /\ [][LegacyNext]_vars

EntityFiles == {"base.schema.json", "b.schema.json", "e1.schema.json", "n.schema.json",
                "noanchor.schema.json", "invalid.schema.json", "bad.schema.json"}

EntityNext ==
  \/ \E i \in 1 .. MaxEntities, f \in EntityFiles : NewJsonSchema(i, f)
  \/ \E i \in 1 .. MaxEntities : Load(i)

SpecEntity == Init /\ [][EntityNext]_vars

-----------------------------------------------------------------------------
(* JsonSchema.build run to its end with no other call in between: the
   entities after the call and the error the call rejects with.  The files
   are not modified after they are loaded (fs.stat gives an mtimeMs that no
   lastBuildTime is below). *)

RECURSIVE build(_, _, _, _, _)
RECURSIVE walkIsBuildValid(_, _, _, _)
RECURSIVE buildParents(_, _, _, _, _, _)
RECURSIVE buildExtensions(_, _, _, _, _, _)

\* jsonschema.getSchema(name): the entity of that name, built; [entities, err, index]
registryGetSchema(es, name, t, fuel) ==
  LET j == schemaIndex(es, name) IN
  IF j = 0 THEN [entities |-> es, err |-> "MISSING_SCHEMA", index |-> 0]
  ELSE LET r == build(es, j, <<>>, t, fuel - 1)
       IN [entities |-> r.entities, err |-> r.err, index |-> j]

\* who.getParent(): [entities, err, index], index 0 for the base schema
getParentOf(es, who, t, fuel) ==
  LET pn == parentName(es[who]) IN
  IF pn = <<>> THEN [entities |-> es, err |-> "none", index |-> 0]
  ELSE registryGetSchema(es, pn[1], t, fuel)

\* the loop of isBuildValid from `schema`: no file is newer than lastBuildTime
walkIsBuildValid(es, schema, t, fuel) ==
  IF fuel = 0 THEN [entities |-> es, err |-> "never settles", valid |-> FALSE]
  ELSE LET p == getParentOf(es, schema, t, fuel) IN
       IF p.err # "none" THEN [entities |-> p.entities, err |-> p.err, valid |-> FALSE]
       ELSE IF p.index = 0 THEN [entities |-> p.entities, err |-> "none", valid |-> TRUE]
       ELSE walkIsBuildValid(p.entities, p.index, t, fuel - 1)

\* isBuildValid(): [entities, err, valid]
isBuildValid(es, i, t, fuel) ==
  IF es[i].built = <<>> THEN [entities |-> es, err |-> "none", valid |-> FALSE]
  ELSE walkIsBuildValid(es, i, t, fuel)

\* while (parent): [entities, err, built]
buildParents(es, parent, built, options, t, fuel) ==
  IF parent = 0 THEN [entities |-> es, err |-> "none", built |-> built]
  ELSE LET b == build(es, parent, SetField(options, "compile", FALSE), t, fuel - 1)
           pt == patch(b.entities[parent].built[1], built, [strict |-> FALSE])
           g == getParentOf(b.entities, parent, t, fuel - 1)
       IN IF b.err # "none" THEN [entities |-> b.entities, err |-> b.err, built |-> built]
          ELSE IF pt.err # "none"
          THEN [entities |-> b.entities, err |-> pt.err, built |-> built]
          ELSE IF g.err # "none" THEN [entities |-> g.entities, err |-> g.err, built |-> built]
          ELSE buildParents(g.entities, g.index, pt.schema, options, t, fuel - 1)

\* this.extensions.map(async s => ...), each getSchema settling at once
buildExtensions(es, list, built, options, t, fuel) ==
  IF list = <<>> THEN [entities |-> es, err |-> "none", built |-> built]
  ELSE IF ~AcceptsExtension(options, Head(list))
  THEN buildExtensions(es, Tail(list), built, options, t, fuel)
  ELSE LET x == registryGetSchema(es, Head(list), t, fuel)
           pt == patch(built, x.entities[x.index].raw[1], [extendAnnotations |-> FALSE])
       IN IF x.err # "none" THEN [entities |-> x.entities, err |-> x.err, built |-> built]
          ELSE IF pt.err # "none"
          THEN [entities |-> x.entities, err |-> pt.err, built |-> built]
          ELSE buildExtensions(x.entities, Tail(list), pt.schema, options, t, fuel)

\* build(options) of entity i: [entities, err]
build(es, i, options, t, fuel) ==
  IF fuel = 0 THEN [entities |-> es, err |-> "never settles"]
  ELSE
  LET v == IF Opt(options, "useCache", TRUE) /\ es[i].enableCache
           THEN isBuildValid(es, i, t, fuel)
           ELSE [entities |-> es, err |-> "none", valid |-> FALSE]
      es1 == [v.entities EXCEPT ![i].isBuilding = TRUE]
      p == getParentOf(es1, i, t, fuel)
      b == buildParents(p.entities, p.index, es[i].raw[1], options, t, fuel)
      x == buildExtensions(b.entities, es[i].extensions, b.built, options, t, fuel)
  IN IF v.err # "none" THEN [entities |-> v.entities, err |-> v.err]
     ELSE IF v.valid THEN [entities |-> v.entities, err |-> "none"]
     ELSE IF v.entities[i].isBuilding THEN [entities |-> v.entities, err |-> "never settles"]
     ELSE IF p.err # "none" THEN [entities |-> p.entities, err |-> p.err]
     ELSE IF b.err # "none" THEN [entities |-> b.entities, err |-> b.err]
     ELSE IF x.err # "none" THEN [entities |-> x.entities, err |-> x.err]
     ELSE [entities |->
             [x.entities EXCEPT
                ![i].built = <<x.built>>,
                ![i].compiled = IF Opt(options, "compile", TRUE) THEN <<x.built>> ELSE @,
                ![i].isBuilding = FALSE,
                ![i].lastBuildTime = <<t>>],
           err |-> "none"]

\* addExtension(extSchemaName)
addExtension(extensions, extSchemaName) ==
  IF extSchemaName \in Range(extensions) THEN extensions
  ELSE Append(extensions, extSchemaName)

\* an entity constructed with enableCache true and loaded from filePath
LoadedEntity(filePath) ==
  LET r == load(filePath) IN
  [NoEntity EXCEPT !.state = "loaded", !.filePath = filePath, !.raw = r.raw,
                   !.name = r.name, !.enableCache = TRUE]

\* the base schema, a schema and an extension of it
CachedEntities ==
  <<LoadedEntity("base.schema.json"), LoadedEntity("b.schema.json"),
    LoadedEntity("x1.schema.json")>>

\* addExtension(extSchemaName) of entity i
AddExtension(i, extSchemaName) ==
  /\ entities[i].state = "loaded"
  /\ entities' = [entities EXCEPT ![i].extensions = addExtension(@, extSchemaName)]
  /\ call' = [NoCall EXCEPT !.op = "addExtension", !.name = entities[i].name,
                            !.id = extSchemaName]
  /\ UNCHANGED <<schemaPaths, schemaExtensions, schemaCache, config, now, tasks, batch, log,
                 px, vx, wrapper>>

\* build(options) of entity i, from the call to its settling
Build(i, options) ==
  /\ entities[i].state = "loaded"
  /\ LET r == build(entities, i, options, now, MaxDepth)
     IN /\ entities' = r.entities
        /\ call' = [NoCall EXCEPT !.op = "build", !.name = entities[i].name, !.err = r.err,
                                  !.options = options,
                                  !.res = IF r.err = "none" THEN r.entities[i].built ELSE <<>>]
  /\ UNCHANGED <<schemaPaths, schemaExtensions, schemaCache, config, now, tasks, batch, log,
                 px, vx, wrapper>>

\* the options of the build calls
BuildOptions ==
  {<<>>, [applyExtensions |-> FALSE], [extensionFilter |-> {}], [extensionFilter |-> {"X1"}],
   [compile |-> FALSE], [useCache |-> FALSE]}

CachedInit ==
  /\ schemaPaths = [n \in Names |-> NoPath]
  /\ schemaExtensions = [n \in Names |-> <<>>]
  /\ schemaCache = NoCache
  /\ config = [isEnabled |-> TRUE, lifespan |-> 1]
  /\ now = 0
  /\ tasks = {}
  /\ batch = IdleBatch
  /\ log = {}
  /\ call = NoCall
  /\ px = IdlePx
  /\ vx = IdleVx
  /\ wrapper = NewWrapper
  /\ entities = CachedEntities

CachedNext ==
  \/ \E e \in {"X1", "X9"} : AddExtension(2, e)
  \/ \E i \in {1, 2}, options \in BuildOptions : Build(i, options)

SpecCached == CachedInit /\ [][CachedNext]_vars

\* a plain schema, the base schema and a schema that merges itself
BuildFiles == {"base.schema.json", "b.schema.json", "s.schema.json"}

Builds == {f \in tasks : f.op = "build"}

BuildNext ==
  \/ \E i \in 1 .. MaxEntities, file \in BuildFiles :
       /\ \A j \in 1 .. MaxEntities : entities[j].filePath # file
       /\ NewJsonSchema(i, file)
  \/ \E i \in 1 .. MaxEntities : Load(i)
  \/ \E i \in 1 .. MaxEntities : BuildCall(i, <<>>)
  \/ \E f \in Builds : BuildGetParent(f)
  \/ \E f \in Builds : BuildParent(f)
  \/ \E f \in Builds : BuildPatch(f)
  \/ \E f \in Builds : BuildCompile(f)
  \/ \E f \in Builds : BuildReturn(f)

SpecBuild == Init /\ [][BuildNext]_vars

\* the ids the suspended calls of build may have
BuildIds == 1 .. MaxCallers * (MaxEntities + 1)

\* the continuation of the suspended call `id` runs
BuildStep(id) ==
  \E f \in Builds :
    /\ f.id = id
    /\ BuildGetParent(f) \/ BuildParent(f) \/ BuildPatch(f) \/ BuildCompile(f) \/ BuildReturn(f)

\* the event loop runs every continuation whose promise has settled
SpecBuildFair == SpecBuild /\ \A id \in BuildIds : WF_vars(BuildStep(id))

ValidateNext ==
  \/ \E data \in ValidateData, options \in ValidateOptions : ValidateCall(data, options)
  \/ \E data \in ValidateData, options \in ValidateOptions : JsonSchemaValidateCall(data, options)

SpecValidate == Init /\ [][ValidateNext]_vars

SanitiseNext ==
  \E impl \in SanitiseImpls, data \in SanitiseData, options \in SanitiseOptions :
    SanitiseCall(impl, data, options)

SpecSanitise == Init /\ [][SanitiseNext]_vars

FormatsNext ==
  \E impl \in FormatImpls, overrides \in FormatOverrides : InitFormatsCall(impl, overrides)

SpecFormats == Init /\ [][FormatsNext]_vars

KeywordsNext ==
  \E parentData \in DateData, parentDataProperty \in DateKeys :
    IsDateCall(parentData, parentDataProperty)

SpecKeywords == Init /\ [][KeywordsNext]_vars

RunNext ==
  \/ RegisterSchemasCall
  \/ \E ok \in BOOLEAN : ResetSettles(ok)
  \/ \E d \in WrapperDeps, ok \in BOOLEAN : WrapperGlobSettles(d, ok)
  \/ \E r \in wrapper.run.pending, ok \in BOOLEAN : RegistrationSettles(r, ok)
  \/ InvokeRegisterSchemasHook

SpecRun == Init /\ [][RunNext]_vars

ErrorsNext ==
  \/ \E filePath \in {"b.schema.json", "x1.schema.json"}, outcome \in LibraryOutcomes,
        errors \in AppErrors :
       ModuleRegisterSchema(filePath, <<>>, outcome, errors)
  \/ \E schemaName \in {"B", "X1"}, outcome \in LibraryOutcomes, errors \in AppErrors :
       ModuleGetSchema(schemaName, <<>>, outcome, errors)

SpecErrors == Init /\ [][ErrorsNext]_vars

WrapperNext ==
  \/ ModuleResetSchemaRegistry
  \/ \E formats \in WrapperFormats : ModuleAddStringFormats(formats)
  \/ \E definition \in WrapperDefinitions, options \in WrapperOptions :
       ModuleAddKeyword(definition, options)
  \/ \E name \in WrapperNames : ModuleDeregisterSchema(name)
  \/ \E baseSchemaName \in WrapperNames, extSchemaName \in WrapperExtensions :
       ModuleExtendSchema(baseSchemaName, extSchemaName)
  \/ \E name \in Accessors : ModuleGet(name)
  \/ \E field \in Accessors : LibrarySets(field)

SpecWrapper == Init /\ [][WrapperNext]_vars

PatchNext == ApplyPatchCall \/ PatchCall \/ PatchAgain

\* the patch engine alone, the module untouched
PatchInit ==
  /\ schemaPaths = [n \in Names |-> NoPath]
  /\ schemaExtensions = [n \in Names |-> <<>>]
  /\ schemaCache = NoCache
  /\ config = [isEnabled |-> FALSE, lifespan |-> 0]
  /\ now = 0
  /\ tasks = {}
  /\ batch = IdleBatch
  /\ log = {}
  /\ call = NoCall
  /\ entities = NoEntities
  /\ px \in PatchInputs
  /\ vx = IdleVx
  /\ wrapper = NewWrapper

SpecPatch == PatchInit /\ [][PatchNext]_vars

-----------------------------------------------------------------------------
(* Properties of the patch engine *)

\* the body a finished call accepted, <<>> when it accepted none
AcceptedBody ==
  IF px.out = <<>> \/ px.out[1].err # "none" \/ px.out[1].warned THEN <<>>
  ELSE PatchData(px.fragment, Opt(px.options, "strict", TRUE))

RequiredOf(o) == IF Has(o, "required") THEN Range(o.required) ELSE {}

\* C10: after a patch whose accepted fragment body has `required`, the target's
\* required holds exactly the names of its previous required and of the
\* fragment's required, each of them once
C10_RequiredUnionOnce ==
  (AcceptedBody # <<>> /\ Has(AcceptedBody[1], "required")) =>
    LET out == px.out[1].schema
    IN /\ Has(out, "required")
       /\ Range(out.required) = RequiredOf(px.target) \cup RequiredOf(AcceptedBody[1])
       /\ Cardinality(Range(out.required)) = Len(out.required)

\* a finished patch whose fragment's required overlaps the target's
C10_Witness ==
  /\ AcceptedBody # <<>> /\ Has(AcceptedBody[1], "required")
  /\ RequiredOf(px.target) \cap RequiredOf(AcceptedBody[1]) # {}
  /\ RequiredOf(AcceptedBody[1]) \ RequiredOf(px.target) # {}

\* C11: after a patch each of allOf, anyOf and oneOf of the target is its
\* previous array followed by the entries of the fragment's array, and is as it
\* was (absent included) when the fragment's array is absent or empty
C11_CompositionsConcatenated ==
  AcceptedBody # <<>> =>
    \A i \in 1 .. Len(Compositions) :
      LET p == Compositions[i]
          D == AcceptedBody[1]
          out == px.out[1].schema
      IN IF Has(D, p) /\ Len(D[p]) > 0
         THEN Has(out, p)
                /\ out[p] = (IF Has(px.target, p) THEN px.target[p] ELSE <<>>) \o D[p]
         ELSE Has(out, p) = Has(px.target, p)
                /\ (Has(out, p) => out[p] = px.target[p])

\* a finished patch of a target with an allOf by a fragment with an allOf
C11_Witness ==
  /\ AcceptedBody # <<>>
  /\ Has(AcceptedBody[1], "allOf") /\ Len(AcceptedBody[1].allOf) > 0
  /\ Has(px.target, "allOf") /\ Len(px.target.allOf) > 0

\* the call is in strict mode and the fragment has neither body
StrictWithoutBody ==
  /\ px.out # <<>>
  /\ Opt(px.options, "strict", TRUE)
  /\ PatchData(px.fragment, TRUE) = <<>>

\* C12: a patch in strict mode with a fragment that has no $patch.with and no
\* $merge.with throws nothing, warns and returns the target as it was
C12_MalformedFragmentIgnored ==
  StrictWithoutBody =>
    /\ px.out[1].err = "none"
    /\ px.out[1].warned
    /\ px.out[1].schema = px.target

RECURSIVE KeepsProps(_, _)
RECURSIVE KeepsDef(_, _)
\* every property of old, at any depth, is in new with the value it had
KeepsProps(old, new) ==
  \A k \in DOMAIN old : k \in DOMAIN new /\ KeepsDef(old[k], new[k])

KeepsDef(od, nd) ==
  \A a \in DOMAIN od :
    /\ a \in DOMAIN nd
    /\ IF a = "properties" THEN KeepsProps(od[a], nd[a]) ELSE nd[a] = od[a]

\* C13: a patch called without overwriteProperties changes the value of no
\* property the target defines, at any depth
C13_DefaultKeepsTargetProperties ==
  (AcceptedBody # <<>> /\ ~Has(px.options, "overwriteProperties")
     /\ Has(px.target, "properties"))
    => /\ Has(px.out[1].schema, "properties")
       /\ KeepsProps(px.target.properties, px.out[1].schema.properties)

\* C36: after a patch with an accepted fragment body that has properties, the
\* target has every key of the body's properties, whether or not it had a
\* properties object before
C36_FragmentPropertiesReachTheTarget ==
  (AcceptedBody # <<>> /\ Has(AcceptedBody[1], "properties"))
    => /\ Has(px.out[1].schema, "properties")
       /\ DOMAIN AcceptedBody[1].properties \subseteq DOMAIN px.out[1].schema.properties

-----------------------------------------------------------------------------
(* Properties of validate *)

\* a call of validate has ended
Validated == vx.op = "validate" /\ vx.out # <<>>

RECURSIVE FillsDefaults(_, _, _)
\* at every path of the default tree, out has the caller's value where data
\* has one and the default otherwise
FillsDefaults(data, defaults, out) ==
  \A k \in DOMAIN defaults :
    /\ k \in DOMAIN out
    /\ IF defaults[k].type = "object"
       THEN IF k \notin DOMAIN data
            THEN out[k].type = "object" /\ FillsDefaults(<<>>, defaults[k].value, out[k].value)
            ELSE IF data[k].type = "object"
            THEN out[k].type = "object"
                 /\ FillsDefaults(data[k].value, defaults[k].value, out[k].value)
            ELSE out[k] = data[k]
       ELSE out[k] = IF k \in DOMAIN data THEN data[k] ELSE defaults[k]

\* C21: the data validate returns have, with useDefaults, the caller's value
\* or else the schema default at every path of the default tree, nested paths
\* included, and are the caller's data without useDefaults
C21_DefaultsFillEveryPath ==
  (Validated /\ vx.out[1].err = "none") =>
    IF Opt(vx.options, "useDefaults", TRUE)
    THEN FillsDefaults(vx.data, getObjectDefaults(ValidateSchema), vx.out[1].data)
    ELSE vx.out[1].data = vx.data

\* the errors of the validator that are to remain: all of them, or with
\* ignoreRequired those that do not report a missing required property
Remaining(found, options) ==
  SelectErrors(found, {e \in Range(found) :
                         ~Opt(options, "ignoreRequired", FALSE) \/ e.keyword # "required"})

\* C22: the error text of validate renders, with ignoreRequired, exactly the
\* errors of the validator that do not report a missing required property,
\* and every error of the validator without it
C22_IgnoreRequiredDropsRequiredOnly ==
  Validated => vx.out[1].errors = JoinErrors(Remaining(vx.out[1].found, vx.options))

\* C23: validate throws VALIDATION_FAILED, with the schema name and the joined
\* text of the remaining errors, exactly when an error remains after the
\* ignoreRequired filtering, and returns the data otherwise
C23_FailsIffAnErrorRemains ==
  Validated =>
    IF Remaining(vx.out[1].found, vx.options) # <<>>
    THEN /\ vx.out[1].err = "VALIDATION_FAILED"
         /\ vx.out[1].schemaName = ValidateSchema.anchor
         /\ vx.out[1].errors = JoinErrors(Remaining(vx.out[1].found, vx.options))
    ELSE vx.out[1].err = "none"

-----------------------------------------------------------------------------
(* Properties of sanitise *)

\* a call of sanitise has ended
SanitiseEnded == vx.op = "sanitise" /\ vx.out # <<>>

RECURSIVE HasProtected(_, _, _)
\* data have, at some depth reached through object-typed properties, a
\* property that is flagged for an option that is set
HasProtected(props, data, opts) ==
  \E prop \in DOMAIN props \cap DOMAIN data :
    \/ omitProp(opts, props[prop])
    \/ /\ IsNested(props[prop])
       /\ data[prop].type = "object"
       /\ HasProtected(props[prop].properties, data[prop].value, opts)

\* C24: a strict sanitise throws MODIFY_PROTECTED_ATTR to its caller exactly
\* when the input has, at some depth, a property that is flagged isInternal
\* with the isInternal option set or isReadOnly with the isReadOnly option set
C24_StrictRejectsProtected ==
  (SanitiseEnded /\ SanitiseOpts(vx.options).strict) =>
    (vx.out[1].err = "MODIFY_PROTECTED_ATTR"
       <=> HasProtected(ValidateSchema.properties, vx.data, SanitiseOpts(vx.options)))

RECURSIVE KeepsUnprotected(_, _, _, _)
\* out lacks every protected property of data and has every other property
\* of data that the schema defines, at every depth
KeepsUnprotected(props, data, opts, out) ==
  \A prop \in DOMAIN props \cap DOMAIN data :
    IF omitProp(opts, props[prop]) THEN prop \notin DOMAIN out
    ELSE /\ prop \in DOMAIN out
         /\ (IsNested(props[prop]) /\ data[prop].type = "object")
              => /\ out[prop].type = "object"
                 /\ KeepsUnprotected(props[prop].properties, data[prop].value, opts,
                                     out[prop].value)

\* C25: a sanitise that is not strict does not throw, and its output lacks the
\* protected properties and has every other input property the schema defines
C25_LenientOmitsProtected ==
  (SanitiseEnded /\ ~SanitiseOpts(vx.options).strict) =>
    /\ vx.out[1].err = "none"
    /\ KeepsUnprotected(ValidateSchema.properties, vx.data, SanitiseOpts(vx.options),
                        vx.out[1].memo)

RECURSIVE KeysWithin(_, _)
\* every key of out is a key of data, at every depth
KeysWithin(out, data) ==
  \A k \in DOMAIN out :
    /\ k \in DOMAIN data
    /\ out[k].type = "object" => (data[k].type = "object" /\ KeysWithin(out[k].value, data[k].value))

\* C26: the output of a sanitise that returns has a key only where the input
\* has that key, at every depth
C26_OutputKeysAreInputKeys ==
  (SanitiseEnded /\ vx.out[1].err = "none") => KeysWithin(vx.out[1].memo, vx.data)

-----------------------------------------------------------------------------
(* Properties of the string formats *)

FormatsEnded == vx.op = "initFormats"

\* the formats the validator holds when the check of the formats starts
FormatsAdded ==
  addFormats(IF vx.impl = "JsonSchemaModule" THEN InitFormatDefaults
             ELSE OverrideFormatDefaults, vx.data)

\* C27: once the formats are initialised no exception was raised, every
\* format with an unsafe pattern is the match-anything pattern and was warned
\* about, and every format with a safe pattern has kept its pattern
C27_UnsafeFormatsAreNeutered ==
  FormatsEnded =>
    /\ vx.out[1].err = "none"
    /\ \A n \in DOMAIN FormatsAdded :
         IF safeRegex(FormatsAdded[n]) THEN vx.out[1].formats[n] = FormatsAdded[n]
         ELSE vx.out[1].formats[n] = defaultRegExp /\ n \in vx.out[1].warnings

-----------------------------------------------------------------------------
(* Properties of the keywords *)

IsDateEnded == vx.op = "isDate"

\* C28: isDate stores the date parsed from the string and reports valid when
\* the string is a date, and reports invalid when it is not; it never reports
\* valid with an invalid date stored
C28_IsDateRejectsUnparsable ==
  IsDateEnded =>
    LET prop == vx.options.parentDataProperty
        parsed == DateParse(vx.data[prop].value)
    IN /\ IF parsed = "NaN" THEN ~vx.out[1].valid
          ELSE vx.out[1].valid /\ vx.out[1].parentData[prop] = Dv(parsed)
       /\ vx.out[1].valid => vx.out[1].parentData[prop] # Dv("NaN")

-----------------------------------------------------------------------------
(* Properties of the module of lib/JsonSchemaModule.js *)

\* C29: the calls the library has received are the calls made on the module,
\* one for one, in order and with the same arguments, and what an accessor
\* returned is the library's value of that field
C29_WrapperForwardsToLibrary ==
  /\ wrapper.library.calls = wrapper.invoked
  /\ wrapper.returned # <<>> =>
       wrapper.returned[1].value = wrapper.library[wrapper.returned[1].accessor]

\* every one of the five operations has been forwarded, options included, and
\* an accessor was read after the library changed the field
C29_Witness ==
  /\ Len(wrapper.invoked) = MaxCalls
  /\ \E i \in 1..Len(wrapper.invoked) :
       /\ wrapper.invoked[i].op = "addKeyword"
       /\ wrapper.invoked[i].arguments[2] # <<>>
       /\ wrapper.library.calls[i] = wrapper.invoked[i]
  /\ wrapper.returned # <<>>
  /\ wrapper.returned[1].value = LibraryValue(wrapper.returned[1].accessor)

\* the positions in the calls the library has received of the calls of op
CallsOf(op) == {k \in 1 .. Len(wrapper.library.calls) : wrapper.library.calls[k].op = op}

LastInvoked == wrapper.invoked[Len(wrapper.invoked)]

ThrownToCaller == wrapper.returned[1].module.reason

RaisedByLibrary == wrapper.returned[1].library.reason

\* C35: a SchemaError of the library with a code the application knows leaves
\* registerSchema as the application's error of that code with the data of
\* the library's error; a MISSING_SCHEMA SchemaError leaves getSchema as the
\* application's MISSING_SCHEMA with the schema name; every other error leaves
\* as it was raised, and a rejection of the library is always a rejection of
\* the call
C35_LibraryErrorsBecomeAppErrors ==
  (wrapper.invoked # <<>> /\ wrapper.returned # <<>>
     /\ wrapper.returned[1].library.settled = "rejected") =>
    /\ wrapper.returned[1].module.settled = "rejected"
    /\ IF LastInvoked.op = "registerSchema" /\ RaisedByLibrary.class = "SchemaError"
          /\ RaisedByLibrary.code \in wrapper.returned[1].errors
       THEN ThrownToCaller = [class |-> "AdaptError", code |-> RaisedByLibrary.code, data |-> RaisedByLibrary.data]
       ELSE IF LastInvoked.op = "getSchema" /\ RaisedByLibrary.class = "SchemaError"
               /\ RaisedByLibrary.code = "MISSING_SCHEMA"
       THEN ThrownToCaller = [class |-> "AdaptError", code |-> "MISSING_SCHEMA",
                      data |-> [schemaName |-> LastInvoked.arguments[1]]]
       ELSE ThrownToCaller = RaisedByLibrary

\* getSchema('X1') met the library's MISSING_SCHEMA raised for another name
C35_Witness ==
  /\ wrapper.invoked # <<>> /\ wrapper.returned # <<>>
  /\ LastInvoked.op = "getSchema"
  /\ LastInvoked.arguments[1] = "X1"
  /\ wrapper.returned[1].library = Rejected(SchemaError("MISSING_SCHEMA", [schemaName |-> "B"]))
  /\ ThrownToCaller.class = "AdaptError"

-----------------------------------------------------------------------------
(* Properties of JsonSchema.build *)

\* the calls whose body of build is in progress for entity i
InBody(i) == {f \in Builds : f.schema = i /\ f.pc \in BodyPcs}

RECURSIVE WalkChain(_, _, _)
\* what build leaves in `built` for the entity i whose parents all resolve:
\* the raw document patched onto the built form of each ancestor in turn
ResolvedBuilt(i, fuel) == WalkChain(i, entities[i].raw[1], fuel)

WalkChain(who, built, fuel) ==
  LET pn == parentName(entities[who])
      j == schemaIndex(entities, pn[1])
  IN IF pn = <<>> \/ fuel = 0 THEN built
     ELSE WalkChain(j, patch(ResolvedBuilt(j, fuel - 1), built, [strict |-> FALSE]).schema,
                    fuel - 1)

RECURSIVE Awaits(_, _, _)
\* the call g awaits, directly or through the calls it awaits, the call w
Awaits(g, w, fuel) ==
  /\ fuel > 0
  /\ w.caller # 0
  /\ \/ w.caller = g.id
     \/ \E h \in Builds : h.id = w.caller /\ Awaits(g, h, fuel - 1)

\* C18: no call of build waits on buildHook for the build in flight that
\* awaits it: a schema whose $merge chain leads back to itself does not leave
\* build waiting on itself
C18_MergeCycleDoesNotWaitOnItself ==
  \A w \in Builds :
    w.pc = "buildHook" => \A g \in InBody(w.schema) : ~Awaits(g, w, MaxDepth)

\* the calls of build that joined the build in flight of entity i and wait
\* for buildHook
Joined(i) == {f \in Builds : f.schema = i /\ f.pc = "buildHook"}

\* C30: the calls that joined a build in flight are resumed, and the building
\* flag of the entity is cleared, whether the build in flight succeeds or fails
C30_JoinedCallsAreResumed ==
  \A i \in 1 .. MaxEntities :
    /\ (Joined(i) # {}) ~> (Joined(i) = {})
    /\ entities[i].isBuilding ~> ~entities[i].isBuilding

-----------------------------------------------------------------------------
(* Properties of JsonSchema.build run to its end *)

\* the last call was a build that resolved
BuildResolved == call.op = "build" /\ call.err = "none"

\* the properties the registered extension s contributes
ExtensionProperties(s) ==
  DOMAIN entities[schemaIndex(entities, s)].raw[1].patch.with.properties

\* C31: the built form a build call resolves with holds the properties of
\* every registered extension of the schema that the options of that call
\* accept, and none of an extension they do not accept, whatever the options
\* of the builds before it
C31_BuiltFollowsTheOptionsOfTheCall ==
  BuildResolved =>
    \A s \in Range(entities[schemaIndex(entities, call.name)].extensions) :
      schemaIndex(entities, s) # 0 =>
        IF AcceptsExtension(call.options, s)
        THEN ExtensionProperties(s) \subseteq DOMAIN call.res[1].properties
        ELSE ExtensionProperties(s) \cap DOMAIN call.res[1].properties = {}

\* C37: when a build called without compile: false has resolved, the entity
\* has a compiled validator and it was compiled from the entity's built form
C37_ResolvedBuildIsCompiled ==
  (BuildResolved /\ Opt(call.options, "compile", TRUE)) =>
    \A i \in 1 .. Len(entities) :
      entities[i].name = call.name =>
        /\ entities[i].compiled # <<>>
        /\ entities[i].compiled = entities[i].built

-----------------------------------------------------------------------------
(* Properties of the registry *)

\* the $anchor of the document in a file, "" when it has none
AnchorOf(filePath) ==
  LET read == ReadJson(filePath)
  IN IF read # <<>> /\ Has(read[1], "anchor") THEN read[1].anchor ELSE ""

\* the suspended registration t is of a document whose name is registered
Collides(t) == AnchorOf(t.file) \in Names /\ Registered(AnchorOf(t.file))

\* getSchema(name) has just returned a built form
Built(name) == call.op = "getSchema" /\ call.name = name /\ call.err = "none"

\* C1: E1 having been recorded as an extension of B before B was registered,
\* a getSchema(B) that returns while E1 is registered finds the record kept and
\* returns a built form with the property x of E1's patch body
C1_ForwardExtensionIsBuilt ==
  (Built("B") /\ Registered("E1"))
    => /\ "E1" \in Range(schemaExtensions["B"])
       /\ Has(call.res[1], "properties")
       /\ "x" \in DOMAIN call.res[1].properties

\* what getSchema(name) builds from the registry of this state had the
\* extensions of name been registered, and settled, in the order list
BuiltInOrder(name, list) ==
  LET exts == [schemaExtensions EXCEPT ![name] = list]
  IN getSchemaR([paths |-> schemaPaths, exts |-> exts,
                 cache |-> prune(schemaCache, now, config.lifespan),
                 isEnabled |-> config.isEnabled],
                exts, name, <<>>, MaxDepth).compiled.schema

\* C2: the built form getSchema returns is the one it would return for every
\* other order in which the registrations of the schema's extensions completed
C2_OrderIndependent ==
  \A n \in Names :
    Built(n) => \A o \in Orders(schemaExtensions[n]) : call.res[1] = BuiltInOrder(n, o)

\* C32: the built form getSchema returns is the one built with the extensions
\* applied in the order of the schema's extension list, in whatever order the
\* loads of the extensions settled
C32_ExtensionsAppliedInListOrder ==
  \A n \in Names : Built(n) => call.res[1] = BuiltInOrder(n, schemaExtensions[n])

\* C33: no extension list holds a name twice
C33_ExtensionListsHaveNoDuplicate ==
  \A n \in Names : Cardinality(Range(schemaExtensions[n])) = Len(schemaExtensions[n])

\* C38: a registerSchema call that ends with an error leaves the registered
\* paths and the extension lists as they were
C38_FailedRegistrationChangesNothing ==
  [][(call'.op = "registerSchema" /\ call'.err # "none"
        /\ (tasks' # tasks \/ call' # call))
       => (schemaPaths' = schemaPaths /\ schemaExtensions' = schemaExtensions)]_vars

\* C39: E1, an extension of B by its registration, having been deregistered,
\* a getSchema(B) made while B and the base schema are registered succeeds
\* and its built form is without the property x of E1's patch body
C39_DeregisteredExtensionIsLeftOut ==
  (call.op = "getSchema" /\ call.name = "B" /\ Registered("B") /\ Registered("base")
     /\ "E1" \in Range(schemaExtensions["B"]) /\ ~Registered("E1"))
    => /\ call.err = "none"
       /\ ~(Has(call.res[1], "properties") /\ "x" \in DOMAIN call.res[1].properties)

\* C40: what a getSchema leaves in the cache under the name of another
\* schema, its parent among them, is the built form of that schema, with its
\* own $anchor and properties, and not a form changed by the build of the
\* schema that was asked for
C40_BuildLeavesOtherSchemasAlone ==
  [][\A m \in Names :
       (call'.op = "getSchema" /\ m # call'.name
          /\ schemaCache'[m] # schemaCache[m] /\ schemaCache'[m] # <<>>)
         => schemaCache'[m][1].data.schema = BuiltInOrder(m, schemaExtensions[m])]_vars

\* the annotation p of a document, <<>> when the document has none
AnnotationOf(schema, p) == IF Has(schema, p) THEN <<schema[p]>> ELSE <<>>

\* C14: the built form getSchema returns has the $anchor, title and description
\* of the form built from the same registry with no extension applied
C14_ExtensionsKeepAnnotations ==
  \A n \in Names :
    Built(n) =>
      \A i \in 1 .. Len(Annotations) :
        AnnotationOf(call.res[1], Annotations[i])
          = AnnotationOf(BuiltInOrder(n, <<>>), Annotations[i])

\* getSchema(B) has returned a form to which the registered extension E1, a
\* document with a $anchor and a title of its own, was applied
C14_Witness ==
  /\ Built("B")
  /\ "E1" \in Range(schemaExtensions["B"])
  /\ Registered("E1")
  /\ Has(call.res[1], "properties")
  /\ "x" \in DOMAIN call.res[1].properties
  /\ call.res[1].anchor = "B"

\* C15: the built form getSchema returns for a schema other than base has every
\* property of the base schema, and has the schema's own definition of every
\* property that the schema's document defines
C15_BaseUnderliesEverySchema ==
  \A n \in Names \ {BASE_SCHEMA_NAME} :
    Built(n) =>
      LET base == ReadJson(schemaPaths[BASE_SCHEMA_NAME])[1]
          own == ReadJson(schemaPaths[n])[1]
          out == call.res[1]
      IN /\ Has(out, "properties")
         /\ \A k \in DOMAIN base.properties :
              /\ k \in DOMAIN out.properties
              /\ (Has(own, "properties") /\ k \in DOMAIN own.properties)
                   => KeepsDef(own.properties[k], out.properties[k])

\* the names of the properties of a document
PropertyNames(schema) == IF Has(schema, "properties") THEN DOMAIN schema.properties ELSE {}

\* the name of the parent a registered schema declares in $merge.source, "" if none
MergeSource(name) ==
  LET read == ReadJson(schemaPaths[name])
  IN IF read # <<>> /\ Has(read[1], "merge") /\ Has(read[1].merge, "source")
        /\ Has(read[1].merge.source, "ref")
     THEN read[1].merge.source.ref ELSE ""

\* C16: the built form getSchema returns for a schema that declares a
\* $merge.source has every property of the built form of that parent and every
\* property of the schema's own $merge.with body
C16_MergeContainsParentAndOwn ==
  \A n \in Names :
    (Built(n) /\ MergeSource(n) # "") =>
      LET own == ReadJson(schemaPaths[n])[1].merge.with
          parent == BuiltInOrder(MergeSource(n), schemaExtensions[MergeSource(n)])
      IN /\ PropertyNames(parent) \subseteq PropertyNames(call.res[1])
         /\ PropertyNames(own) \subseteq PropertyNames(call.res[1])

\* the cache holds an entry of name that is younger than the lifespan
Fresh(name) ==
  /\ config.isEnabled
  /\ schemaCache[name] # <<>>
  /\ now - schemaCache[name][1].timestamp < config.lifespan

\* C19: a SchemaCache.get that returns a value returns the value of an entry
\* that is younger than the lifespan
C19_OnlyFreshEntriesServed ==
  [][\A n \in Names : (CacheGet(n) /\ call'.res # <<>>) => Fresh(n)]_vars

\* C20: while the cache holds an entry of a registered schema that is younger
\* than the lifespan, getSchema answers with that entry and runs no build: it
\* stores nothing in the cache
C20_WarmCacheIsServed ==
  \A n \in Names :
    (Registered(n) /\ Fresh(n)) =>
      LET r == getSchemaR([paths |-> schemaPaths, exts |-> schemaExtensions,
                           cache |-> prune(schemaCache, now, config.lifespan),
                           isEnabled |-> config.isEnabled],
                          schemaExtensions, n, <<>>, MaxDepth)
      IN /\ r.err = "none"
         /\ r.compiled = schemaCache[n][1].data
         /\ r.sets = <<>>

\* C3: a registerSchema without replace of a document whose name is registered
\* throws SCHEMA_EXISTS and changes neither the paths nor the extension lists
C3_CollisionThrowsSchemaExists ==
  [][\A t \in tasks :
       (RegisterFinish(t) /\ Collides(t) /\ ~t.replace)
         => (call'.err = "SCHEMA_EXISTS" /\ UNCHANGED <<schemaPaths, schemaExtensions>>)]_vars

\* C4: a registered name stays registered through a replacing registerSchema:
\* only deregisterSchema(name) unregisters it, the replacement ends with the name
\* bound to the new file, and a getSchema(name) at any point in between is not
\* told the schema is missing and is given the document of the file registered
\* at that point
C4_ReplaceIsAtomic ==
  [][/\ \A n \in Names :
          (Registered(n) /\ schemaPaths'[n] = NoPath)
            => (call'.op = "deregisterSchema" /\ call'.name = n)
     /\ \A t \in tasks :
          (RegisterFinish(t) /\ Collides(t) /\ t.replace)
            => (call'.err = "none" /\ schemaPaths'[AnchorOf(t.file)] = t.file)
     /\ \A n \in Names :
          (Registered(n) /\ call'.op = "getSchema" /\ call'.name = n /\ call' # call)
            => /\ ~(call'.err = "NOT_FOUND" /\ call'.id = n)
               /\ call'.err = "none" =>
                    (Has(call'.res[1], "title")
                       /\ call'.res[1].title = ReadJson(schemaPaths[n])[1].title)]_vars

\* getSchema(B) returned the old document while the file replacing it was being read
C4_Witness ==
  /\ Built("B") /\ call.res[1].title = "B"
  /\ [file |-> "b2.schema.json", replace |-> TRUE, dep |-> "api"] \in tasks

\* C5: after deregisterSchema(name) the name is not registered and is in no
\* list of extensions
C5_DeregisterStripsExtensions ==
  call.op = "deregisterSchema"
    => /\ ~Registered(call.name)
       /\ \A b \in Names : call.name \notin Range(schemaExtensions[b])

\* C6: deregisterSchema throws nothing, changes nothing when the name is not
\* registered, and done a second time changes nothing more
C6_DeregisterIdempotent ==
  [][\A n \in Names :
       DeregisterSchema(n)
         => /\ call'.err = "none"
            /\ ~Registered(n) => UNCHANGED <<schemaPaths, schemaExtensions, schemaCache>>
            /\ deregisterSchema(schemaPaths', n) = schemaPaths'
            /\ \A m \in Names \ {n} : schemaPaths'[m] = schemaPaths[m]]_vars

\* deregisterSchema of a name that is not registered, other schemas being registered
C6_Witness ==
  /\ call.op = "deregisterSchema" /\ call.name = "E1" /\ call.file = NoPath
  /\ Registered("B") /\ Registered("base")

-----------------------------------------------------------------------------
(* Properties of registerSchemas *)

\* the files of dependency d that registerSchema accepts
GoodFiles(d) == {f \in DepFiles(d) : registerSchema([n \in Names |-> NoPath],
                                                     [n \in Names |-> <<>>], f, FALSE).err = "none"}

\* C8: registerSchemas does not fail, and once the files of a dependency have
\* settled every good one of them is registered and every failed one has its
\* warning, whatever happened to the other files and dependencies
C8_BatchFailuresAreIsolated ==
  /\ batch.outcome # "rejected"
  /\ \A d \in Deps :
       batch.deps[d] = "done" =>
         /\ \A f \in GoodFiles(d) : schemaPaths[AnchorOf(f)] = f
         /\ \A f \in DepFiles(d) \ GoodFiles(d) :
              \E l \in log : l.level = "warn" /\ l.file = f

-----------------------------------------------------------------------------
(* Properties of getSchema and of load *)

\* C7: getSchema of a name that is not registered throws NOT_FOUND for that name
\* and changes neither the registry nor the cache
C7_UnregisteredIsNotFound ==
  [][\A n \in Names :
       (~Registered(n) /\ call'.op = "getSchema" /\ call'.name = n /\ call' # call)
         => /\ call'.err = "NOT_FOUND" /\ call'.id = n
            /\ UNCHANGED <<schemaPaths, schemaExtensions, schemaCache>>]_vars

\* the document of instance i lacks $anchor or fails the meta-schema
Invalid(i) ==
  /\ entities[i].raw # <<>>
  /\ ~Has(entities[i].raw[1], "anchor") \/ MetaSchemaErrors(entities[i].raw[1]) # <<>>

\* C9: load of a document that lacks $anchor or fails the meta-schema throws
\* INVALID_SCHEMA with the message of every violation, and gives the instance
\* no name
C9_InvalidDocumentIsRejected ==
  \A i \in 1 .. MaxEntities :
    (entities[i].state \in {"loaded", "failed"} /\ Invalid(i))
      => /\ entities[i].err = "INVALID_SCHEMA"
         /\ Has(entities[i].raw[1], "anchor")
              => Range(entities[i].errors) = Range(MetaSchemaErrors(entities[i].raw[1]))

====
